---- MODULE Spec2Model ----
(***************************************************************************)
(* Relational execution core of src/query/relation.rs: the Relation tree   *)
(* (Fixed, Triple, Derived, Join, Reorder, Filter), the temporary variable *)
(* elimination pass, the predicate index-fill pass and tuple iteration.    *)
(*                                                                         *)
(* A tuple is a sequence of values; column indices are 0-based as in the   *)
(* source, so column i of tuple t is t[i + 1].  A tuple stream is a record *)
(* [items, panic]: the items the iterator yields in order (Ok tuples and   *)
(* Err items) and whether the run panics ("setup": while the iterator is   *)
(* built, "lazy": while it is pulled, after the items listed).             *)
(***************************************************************************)
EXTENDS Integers, Sequences, FiniteSets, Bags, TLC

\* ------------------------------------------------------------------ bounds
\* epochs range over None and Some(0) .. Some(MaxEpoch)
MaxEpoch == 2
\* a Fixed relation holds 0 .. MaxRows rows
MaxRows == 3
\* the probe iterator handed to neg_join yields 0 .. MaxProbe tuples
MaxProbe == 2
\* a Joiner called on its own has 0 .. MaxKeys key pairs
MaxKeys == 2
\* at most MaxIters iterators of a tree are alive at a time
MaxIters == 2
\* iter is not called once the transaction has handed out store id MaxStoreId
MaxStoreId == 3
MaxFault == 3

VARIABLES
    rel,        \* the Relation tree
    orig,       \* the tree as the planner built it (before any pass)
    used,       \* the argument of the last eliminate_temp_vars call
    phase,      \* lifecycle position of the tree
    tx,         \* SessionTx: triples and the derived temp stores
    epoch,      \* argument of the last iter call: <<>> is None, <<k>> is Some(k)
    use_delta,  \* argument of the last iter call
    out,        \* the stream the last iter call produced
    neg,        \* inputs and result of the last TripleRelation::neg_join call
    call,       \* inputs and result of the last call of an operation on its own
    scratch     \* the transaction's scratch stores and the iterators that own them

vars == <<rel, orig, used, phase, tx, epoch, use_delta, out, neg, call, scratch>>

\* ------------------------------------------------------------------ values
EnId(n) == [tag |-> "EnId", v |-> n]
DInt(n) == [tag |-> "Int", v |-> n]

TagRank(tag) == IF tag = "Int" THEN 0 ELSE 1

\* DataValue's total order (the key order of the temp store)
ValLess(a, b) ==
    \/ TagRank(a.tag) < TagRank(b.tag)
    \/ a.tag = b.tag /\ a.v < b.v

MinLen(s, t) == IF Len(s) < Len(t) THEN Len(s) ELSE Len(t)

TupleLess(s, t) ==
    \E i \in 1..(MinLen(s, t) + 1) :
        /\ \A j \in 1..(i - 1) : s[j] = t[j]
        /\ \/ i > Len(s) /\ i <= Len(t)
           \/ i <= Len(s) /\ i <= Len(t) /\ ValLess(s[i], t[i])

RECURSIVE SortTuples(_)
SortTuples(S) ==
    IF S = {} THEN <<>>
    ELSE LET m == CHOOSE x \in S : \A y \in S : x = y \/ TupleLess(x, y)
         IN  <<m>> \o SortTuples(S \ {m})

IsPrefix(p, t) == Len(p) <= Len(t) /\ \A i \in 1..Len(p) : p[i] = t[i]

Range(s) == {s[i] : i \in 1..Len(s)}

\* ------------------------------------------------------------ tuple streams
Ok(t) == [ok |-> TRUE, t |-> t, err |-> ""]
Err(e) == [ok |-> FALSE, t |-> <<>>, err |-> e]

EmptyStream == [items |-> <<>>, panic |-> "none"]
SetupPanic == [items |-> <<>>, panic |-> "setup"]

\* what one pulled item contributes: the items it yields, and whether the
\* closure panicked while producing them
Chunk(items) == [items |-> items, panic |-> FALSE]
PanicChunk == [items |-> <<>>, panic |-> TRUE]

OkSeq(ts) == [i \in 1..Len(ts) |-> Ok(ts[i])]

\* variant of flatten_ok that ends the stream with the first error item
RECURSIVE flatten_ok_fused_on_error(_, _)
flatten_ok_fused_on_error(chunks, upstream) ==
    IF chunks = <<>> THEN [items |-> <<>>, panic |-> upstream]
    ELSE LET c == Head(chunks)
         IN  IF c.panic THEN [items |-> c.items, panic |-> "lazy"]
             ELSE IF \E k \in 1..Len(c.items) : ~c.items[k].ok
             THEN [items |-> c.items, panic |-> "none"]
             ELSE LET r == flatten_ok_fused_on_error(Tail(chunks), upstream)
                  IN  [items |-> c.items \o r.items, panic |-> r.panic]

\* flatten_ok / map(flatten_err): the chunks in order, up to the first panic
RECURSIVE flatten_ok(_, _)
flatten_ok(chunks, upstream) ==
    IF chunks = <<>> THEN [items |-> <<>>, panic |-> upstream]
    ELSE LET c == Head(chunks)
         IN  IF c.panic THEN [items |-> c.items, panic |-> "lazy"]
             ELSE LET r == flatten_ok(Tail(chunks), upstream)
                  IN  [items |-> c.items \o r.items, panic |-> r.panic]

\* the inline projection `enumerate().filter_map(|(i, v)| if
\* eliminate_indices.contains(&i) { None } else { Some(v) })`
RECURSIVE DropIdx(_, _, _)
DropIdx(t, E, i) ==
    IF i > Len(t) THEN <<>>
    ELSE (IF (i - 1) \in E THEN <<>> ELSE <<t[i]>>) \o DropIdx(t, E, i + 1)

eliminate(t, E) == IF E # {} THEN DropIdx(t, E, 1) ELSE t

get_eliminate_indices(bindings, elim) ==
    {i - 1 : i \in {j \in 1..Len(bindings) : bindings[j] \in elim}}

\* a BTreeMap collected from (binding, position) pairs: a later pair wins
HasKey(bindings, k) == \E i \in 1..Len(bindings) : bindings[i] = k

IndexOf(bindings, k) ==
    (CHOOSE i \in 1..Len(bindings) :
        /\ bindings[i] = k
        /\ \A j \in 1..Len(bindings) : bindings[j] = k => j <= i) - 1

\* positions 1..Len(keys) in the order a stable sort by key leaves them
StableOrder(keys) ==
    LET n == Len(keys)
        rank(p) == Cardinality({q \in 1..n :
                        keys[q] < keys[p] \/ (keys[q] = keys[p] /\ q < p)}) + 1
    IN  [j \in 1..n |-> CHOOSE p \in 1..n : rank(p) = j]

\* ------------------------------------------------------- temp store (runtime)
put(store, t, ep) == [store EXCEPT !.eps[ep] = @ \cup {t}]

scan_all_for_epoch(store, ep) == SortTuples(store.eps[ep])

scan_prefix_for_epoch(store, prefix, ep) ==
    SortTuples({t \in store.eps[ep] : IsPrefix(prefix, t)})

scan_prefix(store, prefix) == scan_prefix_for_epoch(store, prefix, 0)

new_throwaway == [id |-> 0, eps |-> [e \in {0} |-> {}]]

RECURSIVE PutAll(_, _)
PutAll(store, ts) ==
    IF ts = <<>> THEN store ELSE PutAll(put(store, Head(ts), 0), Tail(ts))

\* variant of the fill loop that skips an error item and ignores a failed put
RECURSIVE fill_loop_skipping_failures(_, _, _, _)
fill_loop_skipping_failures(store, items, fail_put, puts_done) ==
    IF items = <<>> THEN [failed |-> FALSE, item |-> Err(""), store |-> store]
    ELSE IF ~Head(items).ok
    THEN fill_loop_skipping_failures(store, Tail(items), fail_put, puts_done)
    ELSE fill_loop_skipping_failures(put(store, Head(items).t, 0), Tail(items),
                                     fail_put, puts_done + 1)

\* the loop that fills a scratch store from an iterator: `for item in ...
\* { match item { Err(e) => return [Err(e)], Ok(t) => if let Err(e) =
\* throwaway.put(..) { return [Err(e)] } } }`. put number fail_put fails
\* (0: no put fails); `failed` tells whether the loop returned early and `item`
\* is the error item it returned
RECURSIVE fill_loop(_, _, _, _)
fill_loop(store, items, fail_put, puts_done) ==
    IF items = <<>> THEN [failed |-> FALSE, item |-> Err(""), store |-> store]
    ELSE IF ~Head(items).ok
    THEN [failed |-> TRUE, item |-> Head(items), store |-> store]
    ELSE IF fail_put = puts_done + 1
    THEN [failed |-> TRUE, item |-> Err("storage"), store |-> store]
    ELSE fill_loop(put(store, Head(items).t, 0), Tail(items), fail_put,
                   puts_done + 1)

\* ------------------------------------------------------ SessionTx (runtime)
Visible(t, aid, vld) == {f \in t.facts : f.a = aid /\ f.t <= vld}

triple_a_before_scan(t, aid, vld) ==
    SortTuples({<<EnId(f.e), f.v>> : f \in Visible(t, aid, vld)})

triple_ea_before_scan(t, eid, aid, vld) ==
    SortTuples({<<EnId(f.e), f.v>> : f \in {g \in Visible(t, aid, vld) : g.e = eid}})

triple_av_before_scan(t, aid, val, vld) ==
    SortTuples({<<EnId(f.e), f.v>> : f \in {g \in Visible(t, aid, vld) : g.v = val}})

triple_vref_a_before_scan(t, v_eid, aid, vld) ==
    SortTuples({<<EnId(f.e), f.v>> :
                    f \in {g \in Visible(t, aid, vld) : g.v = EnId(v_eid)}})

eav_exists(t, eid, aid, v, vld) ==
    \E f \in Visible(t, aid, vld) : f.e = eid /\ f.v = v

\* ------------------------------------------------------------- Expr (data)
\* a predicate over one column: op "eq" compares the column with c, op "gt"
\* is an integer comparison that fails on a value of another kind.
\* idx is the resolved position: <<>> until fill_binding_indices, then <<i>>.
Pred(op, var, c) == [op |-> op, var |-> var, c |-> c, idx |-> <<>>]

pred_bindings(p) == {p.var}

pred_fill_binding_indices(p, bindings) ==
    IF HasKey(bindings, p.var)
    THEN [p EXCEPT !.idx = <<IndexOf(bindings, p.var)>>]
    ELSE p

\* the item eval_pred contributes: "true", "false" or "err"
eval_pred(p, t) ==
    IF p.idx = <<>> \/ p.idx[1] >= Len(t) THEN "err"
    ELSE LET x == t[p.idx[1] + 1]
         IN  IF p.op = "eq" THEN (IF x = p.c THEN "true" ELSE "false")
             ELSE IF x.tag # "Int" THEN "err"
             ELSE IF x.v > p.c.v THEN "true" ELSE "false"

\* ------------------------------------------------- Relation constructors
unit == [kind |-> "Fixed", bindings |-> <<>>, data |-> << <<>> >>, to_eliminate |-> {}]

fixed(bindings, data) ==
    [kind |-> "Fixed", bindings |-> bindings, data |-> data, to_eliminate |-> {}]

triple(attr, vld, e_binding, v_binding) ==
    [kind |-> "Triple", attr |-> attr, vld |-> vld, bindings |-> <<e_binding, v_binding>>]

derived(bindings, storage) ==
    [kind |-> "Derived", bindings |-> bindings, storage |-> storage]

reorder(r, new_order) == [kind |-> "Reorder", relation |-> r, new_order |-> new_order]

filter(r, pred) == [kind |-> "Filter", parent |-> r, pred |-> pred, to_eliminate |-> {}]

join(l, r, left_keys, right_keys) ==
    [kind |-> "Join", left |-> l, right |-> r,
     joiner |-> [left_keys |-> left_keys, right_keys |-> right_keys],
     to_eliminate |-> {}]

cartesian_join(l, r) == join(l, r, <<>>, <<>>)

is_unit(r) == r.kind = "Fixed" /\ r.bindings = <<>> /\ Len(r.data) = 1

\* ------------------------------------------------------------------ bindings
has_eliminate_set(r) == r.kind \in {"Fixed", "Join", "Filter"}

RECURSIVE bindings_after_eliminate(_)
RECURSIVE bindings_before_eliminate(_)
RECURSIVE InnerJoin_bindings(_)

InnerJoin_bindings(j) ==
    bindings_after_eliminate(j.left) \o bindings_after_eliminate(j.right)

bindings_before_eliminate(r) ==
    CASE r.kind = "Fixed" -> r.bindings
      [] r.kind = "Triple" -> r.bindings
      [] r.kind = "Derived" -> r.bindings
      [] r.kind = "Join" -> InnerJoin_bindings(r)
      [] r.kind = "Reorder" -> r.new_order
      [] r.kind = "Filter" -> bindings_after_eliminate(r.parent)

\* variant of bindings_after_eliminate that ignores the elimination set
bindings_after_eliminate_unfiltered(r) == bindings_before_eliminate(r)

bindings_after_eliminate(r) ==
    LET ret == bindings_before_eliminate(r)
    IN  IF has_eliminate_set(r)
        THEN SelectSeq(ret, LAMBDA kw : kw \notin r.to_eliminate)
        ELSE ret

\* ---------------------------------------------------------- elimination pass
RECURSIVE eliminate_temp_vars(_, _)

Fixed_do_eliminate_temp_vars(r, u) ==
    [r EXCEPT !.to_eliminate = @ \cup {b \in Range(r.bindings) : b \notin u}]

\* variant of the Join pass that hands `used` to the children without the keys
InnerJoin_do_eliminate_without_keys(r, u) ==
    [r EXCEPT !.to_eliminate = @ \cup {b \in Range(InnerJoin_bindings(r)) : b \notin u},
              !.left = eliminate_temp_vars(@, u),
              !.right = eliminate_temp_vars(@, u)]

InnerJoin_do_eliminate_temp_vars(r, u) ==
    [r EXCEPT !.to_eliminate = @ \cup {b \in Range(InnerJoin_bindings(r)) : b \notin u},
              !.left = eliminate_temp_vars(@, u \cup Range(r.joiner.left_keys)),
              !.right = eliminate_temp_vars(@, u \cup Range(r.joiner.right_keys))]

Filtered_do_eliminate_temp_vars(r, u) ==
    [r EXCEPT !.to_eliminate =
                  @ \cup {b \in Range(bindings_before_eliminate(r.parent)) : b \notin u},
              !.parent = eliminate_temp_vars(@, u \cup pred_bindings(r.pred))]

eliminate_temp_vars(r, u) ==
    CASE r.kind = "Fixed" -> Fixed_do_eliminate_temp_vars(r, u)
      [] r.kind = "Triple" -> r
      [] r.kind = "Derived" -> r
      [] r.kind = "Join" -> InnerJoin_do_eliminate_temp_vars(r, u)
      [] r.kind = "Reorder" -> [r EXCEPT !.relation = eliminate_temp_vars(@, u)]
      [] r.kind = "Filter" -> Filtered_do_eliminate_temp_vars(r, u)

\* ------------------------------------------------------------ index-fill pass
RECURSIVE fill_predicate_binding_indices(_)

Filtered_fill_binding_indices(f) ==
    [f EXCEPT !.pred = pred_fill_binding_indices(@, bindings_after_eliminate(f.parent))]

fill_predicate_binding_indices(r) ==
    CASE r.kind \in {"Fixed", "Triple", "Derived"} -> r
      [] r.kind = "Join" ->
            [r EXCEPT !.left = fill_predicate_binding_indices(@),
                      !.right = fill_predicate_binding_indices(@)]
      [] r.kind = "Reorder" -> [r EXCEPT !.relation = fill_predicate_binding_indices(@)]
      [] r.kind = "Filter" ->
            Filtered_fill_binding_indices(
                [r EXCEPT !.parent = fill_predicate_binding_indices(@)])

\* --------------------------------------------------------------------- Joiner
\* [ok, l, r, missing]: the positional indices, or the first key not found
\* variant of join_indices that returns each key's position in the key list
join_indices_by_key_position(joiner, left_bindings, right_bindings) ==
    LET n == MinLen(joiner.left_keys, joiner.right_keys)
        bad == {k \in 1..n : ~HasKey(left_bindings, joiner.left_keys[k])
                                \/ ~HasKey(right_bindings, joiner.right_keys[k])}
    IN  IF bad = {}
        THEN [ok |-> TRUE, l |-> [k \in 1..n |-> k - 1], r |-> [k \in 1..n |-> k - 1],
              missing |-> ""]
        ELSE [ok |-> FALSE, l |-> <<>>, r |-> <<>>,
              missing |-> joiner.left_keys[CHOOSE x \in bad : TRUE]]

join_indices(joiner, left_bindings, right_bindings) ==
    LET n == MinLen(joiner.left_keys, joiner.right_keys)
        lbad(k) == ~HasKey(left_bindings, joiner.left_keys[k])
        rbad(k) == ~HasKey(right_bindings, joiner.right_keys[k])
        bad == {k \in 1..n : lbad(k) \/ rbad(k)}
    IN  IF bad = {}
        THEN [ok |-> TRUE,
              l |-> [k \in 1..n |-> IndexOf(left_bindings, joiner.left_keys[k])],
              r |-> [k \in 1..n |-> IndexOf(right_bindings, joiner.right_keys[k])],
              missing |-> ""]
        ELSE LET k == CHOOSE x \in bad : \A y \in bad : x <= y
             IN  [ok |-> FALSE, l |-> <<>>, r |-> <<>>,
                  missing |-> IF lbad(k) THEN joiner.left_keys[k]
                              ELSE joiner.right_keys[k]]

\* some index of idxs is past the end of tuple t (an indexing panic)
OutOfRange(idxs, t) == \E k \in 1..Len(idxs) : idxs[k] >= Len(t)

Pick(t, idxs) == [k \in 1..Len(idxs) |-> t[idxs[k] + 1]]

\* ------------------------------------------------------- InlineFixedRelation
\* variant of InlineFixedRelation::join whose multi-row path emits the rows of
\* one key last row first
InlineFixed_join_last_row_first(f, L, li, ri, E) ==
    IF Len(f.data) = 0
    THEN IF L.panic = "setup" THEN L ELSE EmptyStream
    ELSE LET rows(key) == SelectSeq(f.data, LAMBDA d : Pick(d, ri) = key)
             chunk(tuple) ==
                IF OutOfRange(li, tuple) THEN PanicChunk
                ELSE LET m == rows(Pick(tuple, li))
                     IN  Chunk([k \in 1..Len(m) |->
                            Ok(IF Len(f.data) = 1 THEN eliminate(tuple \o m[k], E)
                               ELSE tuple \o m[Len(m) + 1 - k])])
         IN  flatten_ok([i \in 1..Len(L.items) |->
                            IF L.items[i].ok THEN chunk(L.items[i].t)
                            ELSE Chunk(<<L.items[i]>>)], L.panic)

InlineFixed_join(f, L, li, ri, E) ==
    IF Len(f.data) = 0
    THEN IF L.panic = "setup" THEN L ELSE EmptyStream
    ELSE IF Len(f.data) = 1
    THEN LET data == f.data[1]
             right_join_values == Pick(data, ri)
             chunk(tuple) ==
                IF OutOfRange(li, tuple) THEN PanicChunk
                ELSE IF Pick(tuple, li) = right_join_values
                THEN Chunk(<<Ok(eliminate(tuple \o data, E))>>)
                ELSE Chunk(<<>>)
         IN  flatten_ok([i \in 1..Len(L.items) |->
                            IF L.items[i].ok THEN chunk(L.items[i].t)
                            ELSE Chunk(<<L.items[i]>>)], L.panic)
    ELSE LET rows(key) == SelectSeq(f.data, LAMBDA d : Pick(d, ri) = key)
             chunk(tuple) ==
                IF OutOfRange(li, tuple) THEN PanicChunk
                ELSE LET m == rows(Pick(tuple, li))
                     IN  Chunk([k \in 1..Len(m) |-> Ok(tuple \o m[k])])
         IN  flatten_ok([i \in 1..Len(L.items) |->
                            IF L.items[i].ok THEN chunk(L.items[i].t)
                            ELSE Chunk(<<L.items[i]>>)], L.panic)

\* ------------------------------------------------------------ TripleRelation
\* the scans of this model yield pairs <<EnId(e), v>>; each variant appends
\* them the way its closure does
Triple_cartesian_join(r, L, t) ==
    LET found == triple_a_before_scan(t, r.attr.id, r.vld)
        chunk(tuple) ==
            Chunk([k \in 1..Len(found) |-> Ok(tuple \o <<found[k][1], found[k][2]>>)])
    IN  flatten_ok([i \in 1..Len(L.items) |->
                       IF L.items[i].ok THEN chunk(L.items[i].t)
                       ELSE Chunk(<<L.items[i]>>)], L.panic)

ev_join(r, L, left_e_idx, left_v_idx, t, E) ==
    LET chunk(tuple) ==
            IF left_e_idx >= Len(tuple) THEN PanicChunk
            ELSE IF tuple[left_e_idx + 1].tag # "EnId" THEN Chunk(<<Err("type")>>)
            ELSE IF left_v_idx >= Len(tuple) THEN PanicChunk
            ELSE LET eid == tuple[left_e_idx + 1].v
                     v == tuple[left_v_idx + 1]
                 IN  IF eav_exists(t, eid, r.attr.id, v, r.vld)
                     THEN Chunk(<<Ok(eliminate(tuple \o <<EnId(eid), v>>, E))>>)
                     ELSE Chunk(<<>>)
    IN  flatten_ok([i \in 1..Len(L.items) |->
                       IF L.items[i].ok THEN chunk(L.items[i].t)
                       ELSE Chunk(<<L.items[i]>>)], L.panic)

e_join(r, L, left_e_idx, t, E) ==
    LET chunk(tuple) ==
            IF left_e_idx >= Len(tuple) THEN PanicChunk
            ELSE IF tuple[left_e_idx + 1].tag # "EnId" THEN Chunk(<<Err("type")>>)
            ELSE LET found == triple_ea_before_scan(t, tuple[left_e_idx + 1].v,
                                                    r.attr.id, r.vld)
                 IN  Chunk([k \in 1..Len(found) |->
                        Ok(eliminate(tuple \o <<found[k][1], found[k][2]>>, E))])
    IN  flatten_ok([i \in 1..Len(L.items) |->
                       IF L.items[i].ok THEN chunk(L.items[i].t)
                       ELSE Chunk(<<L.items[i]>>)], L.panic)

v_ref_join(r, L, left_v_idx, t, E) ==
    LET chunk(tuple) ==
            IF left_v_idx >= Len(tuple) THEN PanicChunk
            ELSE IF tuple[left_v_idx + 1].tag # "EnId" THEN Chunk(<<Err("type")>>)
            ELSE LET v_eid == tuple[left_v_idx + 1].v
                     found == triple_vref_a_before_scan(t, v_eid, r.attr.id, r.vld)
                 IN  Chunk([k \in 1..Len(found) |->
                        Ok(eliminate(tuple \o <<found[k][1], EnId(v_eid)>>, E))])
    IN  flatten_ok([i \in 1..Len(L.items) |->
                       IF L.items[i].ok THEN chunk(L.items[i].t)
                       ELSE Chunk(<<L.items[i]>>)], L.panic)

v_index_join(r, L, left_v_idx, t, E) ==
    LET chunk(tuple) ==
            IF left_v_idx >= Len(tuple) THEN PanicChunk
            ELSE LET found == triple_av_before_scan(t, r.attr.id,
                                                    tuple[left_v_idx + 1], r.vld)
                 IN  Chunk([k \in 1..Len(found) |->
                        Ok(eliminate(tuple \o <<found[k][1], found[k][2]>>, E))])
    IN  flatten_ok([i \in 1..Len(L.items) |->
                       IF L.items[i].ok THEN chunk(L.items[i].t)
                       ELSE Chunk(<<L.items[i]>>)], L.panic)

\* what the closure pushes after the probe tuple for one temp-store hit
\* found = [val, EnId(eid)]: `found.pop()` and one `ret.push`
v_no_index_pushed(found) == <<found[Len(found)]>>

\* v_no_index_join when the attribute scan yields the items `scan` and put
\* number fail_put fails: the stream returned, and whether it pulls left_iter
v_no_index_join_with(r, L, left_v_idx, t, E, scan, fail_put) ==
    LET filled == fill_loop(new_throwaway,
                      [k \in 1..Len(scan) |->
                          IF scan[k].ok THEN Ok(<<scan[k].t[2], scan[k].t[1]>>)
                          ELSE scan[k]],
                      fail_put, 0)
        throwaway == filled.store
        chunk(tuple) ==
            IF left_v_idx >= Len(tuple) THEN PanicChunk
            ELSE LET found == scan_prefix(throwaway, <<tuple[left_v_idx + 1]>>)
                 IN  Chunk([k \in 1..Len(found) |->
                        Ok(eliminate(tuple \o v_no_index_pushed(found[k]), E))])
    IN  IF filled.failed
        THEN [stream |-> [items |-> <<filled.item>>, panic |-> "none"],
              left_pulled |-> FALSE]
        ELSE [stream |-> flatten_ok([i \in 1..Len(L.items) |->
                                        IF L.items[i].ok THEN chunk(L.items[i].t)
                                        ELSE Chunk(<<L.items[i]>>)], L.panic),
              left_pulled |-> TRUE]

v_no_index_join(r, L, left_v_idx, t, E) ==
    v_no_index_join_with(r, L, left_v_idx, t, E,
                         OkSeq(triple_a_before_scan(t, r.attr.id, r.vld)), 0).stream

Triple_join(r, L, li, ri, t, E) ==
    CASE Len(ri) = 0 -> Triple_cartesian_join(r, L, t)
      [] Len(ri) = 2 ->
            IF ri = <<0, 1>> THEN ev_join(r, L, li[1], li[2], t, E)
            ELSE IF ri = <<1, 0>> THEN ev_join(r, L, li[2], li[1], t, E)
            ELSE SetupPanic
      [] Len(ri) = 1 ->
            IF ri[1] = 0 THEN e_join(r, L, li[1], t, E)
            ELSE IF r.attr.is_ref_type THEN v_ref_join(r, L, li[1], t, E)
            ELSE IF r.attr.should_index THEN v_index_join(r, L, li[1], t, E)
            ELSE v_no_index_join(r, L, li[1], t, E)
      [] OTHER -> SetupPanic

\* ------------------------------------------------------ StoredDerivedRelation
\* variant of iter without the early return at epoch Some(0)
Derived_iter_without_epoch_zero_return(r, t, ep, ud) ==
    LET scan_epoch == IF ep = <<>> \/ ep = <<0>> THEN 0
                      ELSE IF r.storage \in ud THEN ep[1] - 1 ELSE 0
    IN  [items |-> OkSeq(scan_all_for_epoch(t.stores[r.storage], scan_epoch)),
         panic |-> "none"]

\* variant of iter that reads epoch k-1 whether or not the id is in use_delta
Derived_iter_always_delta(r, t, ep, ud) ==
    IF ep = <<0>> THEN EmptyStream
    ELSE LET scan_epoch == IF ep = <<>> THEN 0 ELSE ep[1] - 1
         IN  [items |-> OkSeq(scan_all_for_epoch(t.stores[r.storage], scan_epoch)),
              panic |-> "none"]

Derived_iter(r, t, ep, ud) ==
    IF ep = <<0>> THEN EmptyStream
    ELSE LET scan_epoch == IF ep = <<>> THEN 0
                           ELSE IF r.storage \in ud THEN ep[1] - 1 ELSE 0
         IN  [items |-> OkSeq(scan_all_for_epoch(t.stores[r.storage], scan_epoch)),
              panic |-> "none"]

\* variant of join_is_prefix that only asks for the sorted indices not to
\* repeat
join_is_prefix_without_start_check(ri) ==
    LET o == StableOrder(ri)
    IN  \A j \in 2..Len(ri) : ri[o[j]] > ri[o[j - 1]]

join_is_prefix(ri) ==
    LET o == StableOrder(ri)
    IN  \A j \in 1..Len(ri) : ri[o[j]] = j - 1

\* variant of prefix_join that scans the full store at every epoch but Some(0)
prefix_join_full_store(r, L, li, ri, E, ep, ud, t) ==
    IF ep = <<0>> THEN (IF L.panic = "setup" THEN L ELSE EmptyStream)
    ELSE LET o == StableOrder(ri)
             left_to_prefix_indices == [j \in 1..Len(ri) |-> li[o[j]]]
             chunk(tuple) ==
                IF OutOfRange(left_to_prefix_indices, tuple) THEN PanicChunk
                ELSE LET prefix == Pick(tuple, left_to_prefix_indices)
                         found == scan_prefix_for_epoch(t.stores[r.storage],
                                                        prefix, 0)
                     IN  Chunk([k \in 1..Len(found) |->
                                    Ok(eliminate(tuple \o found[k], E))])
         IN  flatten_ok([i \in 1..Len(L.items) |->
                            IF L.items[i].ok THEN chunk(L.items[i].t)
                            ELSE Chunk(<<L.items[i]>>)], L.panic)

prefix_join(r, L, li, ri, E, ep, ud, t) ==
    IF ep = <<0>> THEN (IF L.panic = "setup" THEN L ELSE EmptyStream)
    ELSE LET o == StableOrder(ri)
             left_to_prefix_indices == [j \in 1..Len(ri) |-> li[o[j]]]
             scan_epoch == IF ep = <<>> THEN 0
                           ELSE IF r.storage \in ud THEN ep[1] - 1 ELSE 0
             chunk(tuple) ==
                IF OutOfRange(left_to_prefix_indices, tuple) THEN PanicChunk
                ELSE LET prefix == Pick(tuple, left_to_prefix_indices)
                         found == scan_prefix_for_epoch(t.stores[r.storage],
                                                        prefix, scan_epoch)
                     IN  Chunk([k \in 1..Len(found) |->
                                    Ok(eliminate(tuple \o found[k], E))])
         IN  flatten_ok([i \in 1..Len(L.items) |->
                            IF L.items[i].ok THEN chunk(L.items[i].t)
                            ELSE Chunk(<<L.items[i]>>)], L.panic)

\* the number of leading positions of the sorted right indices that hold their
\* own rank: the loop that breaks at the first `ord != *ord_sorted`
RECURSIVE neg_prefix_len(_, _, _)
neg_prefix_len(ri, o, ord) ==
    IF ord >= Len(ri) THEN ord
    ELSE IF ri[o[ord + 1]] # ord THEN ord
    ELSE neg_prefix_len(ri, o, ord + 1)

\* the comparison loop over the zipped index pairs, for a scanned tuple:
\* "match", "differ", or "panic" when an index is past the end
RECURSIVE neg_compare(_, _, _, _, _)
neg_compare(tuple, found, li, ri, k) ==
    IF k > MinLen(li, ri) THEN "match"
    ELSE IF li[k] >= Len(tuple) \/ ri[k] >= Len(found) THEN "panic"
    ELSE IF tuple[li[k] + 1] # found[ri[k] + 1] THEN "differ"
    ELSE neg_compare(tuple, found, li, ri, k + 1)

\* the scan loop: the verdict of the first scanned tuple that does not differ
RECURSIVE neg_scan(_, _, _, _)
neg_scan(tuple, founds, li, ri) ==
    IF founds = <<>> THEN "none"
    ELSE LET c == neg_compare(tuple, Head(founds), li, ri, 1)
         IN  IF c = "differ" THEN neg_scan(tuple, Tail(founds), li, ri) ELSE c

\* variant of neg_join that takes the prefix columns in the order of the left
\* indices as given
Derived_neg_join_unsorted_prefix(r, L, li, ri, t) ==
    LET o == StableOrder(ri)
        p == neg_prefix_len(ri, o, 0)
        left_to_prefix_indices == [j \in 1..p |-> li[j]]
        chunk(tuple) ==
            IF OutOfRange(left_to_prefix_indices, tuple) THEN PanicChunk
            ELSE LET verdict == neg_scan(tuple,
                                    scan_prefix(t.stores[r.storage],
                                                Pick(tuple, left_to_prefix_indices)),
                                    li, ri)
                 IN  IF verdict = "panic" THEN PanicChunk
                     ELSE IF verdict = "match" THEN Chunk(<<>>)
                     ELSE Chunk(<<Ok(tuple)>>)
    IN  flatten_ok([i \in 1..Len(L.items) |->
                       IF L.items[i].ok THEN chunk(L.items[i].t)
                       ELSE Chunk(<<L.items[i]>>)], L.panic)

\* StoredDerivedRelation::neg_join (right_join_indices not empty)
Derived_neg_join(r, L, li, ri, t) ==
    LET o == StableOrder(ri)
        p == neg_prefix_len(ri, o, 0)
        left_to_prefix_indices == [j \in 1..p |-> li[o[j]]]
        chunk(tuple) ==
            IF OutOfRange(left_to_prefix_indices, tuple) THEN PanicChunk
            ELSE LET verdict == neg_scan(tuple,
                                    scan_prefix(t.stores[r.storage],
                                                Pick(tuple, left_to_prefix_indices)),
                                    li, ri)
                 IN  IF verdict = "panic" THEN PanicChunk
                     ELSE IF verdict = "match" THEN Chunk(<<>>)
                     ELSE Chunk(<<Ok(tuple)>>)
    IN  flatten_ok([i \in 1..Len(L.items) |->
                       IF L.items[i].ok THEN chunk(L.items[i].t)
                       ELSE Chunk(<<L.items[i]>>)], L.panic)

\* ------------------------------------------------------------------ iteration
RECURSIVE iter(_, _, _, _)
RECURSIVE InnerJoin_iter(_, _, _, _)
RECURSIVE materialized_join(_, _, _, _, _)
RECURSIVE Reorder_iter(_, _, _, _)
RECURSIVE Filtered_iter(_, _, _, _)

\* the value of new_order[j]'s column in the child tuple `old`
reorder_tuple(old, reorder_indices) == Pick(old, reorder_indices)

Reorder_iter(r, t, ep, ud) ==
    LET old_order == bindings_after_eliminate(r.relation)
    IN  IF \E k \in 1..Len(r.new_order) : ~HasKey(old_order, r.new_order[k])
        THEN SetupPanic
        ELSE LET reorder_indices ==
                    [k \in 1..Len(r.new_order) |-> IndexOf(old_order, r.new_order[k])]
                 C == iter(r.relation, t, ep, ud)
                 chunk(tuple) ==
                    IF OutOfRange(reorder_indices, tuple) THEN PanicChunk
                    ELSE Chunk(<<Ok(reorder_tuple(tuple, reorder_indices))>>)
             IN  flatten_ok([i \in 1..Len(C.items) |->
                                IF C.items[i].ok THEN chunk(C.items[i].t)
                                ELSE Chunk(<<C.items[i]>>)], C.panic)

\* what the filter closure yields for one parent tuple
\* variant of the filter closure that lets a tuple through when the
\* predicate evaluates to false
filter_item_keeps_false(pred, tuple, E) ==
    LET b == eval_pred(pred, tuple)
    IN  IF b \in {"true", "false"} THEN <<Ok(eliminate(tuple, E))>>
        ELSE <<Err("eval")>>

filter_item(pred, tuple, E) ==
    LET b == eval_pred(pred, tuple)
    IN  IF b = "true" THEN <<Ok(eliminate(tuple, E))>>
        ELSE IF b = "false" THEN <<>>
        ELSE <<Err("eval")>>

Filtered_iter(r, t, ep, ud) ==
    LET bindings == bindings_after_eliminate(r.parent)
        eliminate_indices == get_eliminate_indices(bindings, r.to_eliminate)
        P == iter(r.parent, t, ep, ud)
    IN  flatten_ok([i \in 1..Len(P.items) |->
                       IF P.items[i].ok
                       THEN Chunk(filter_item(r.pred, P.items[i].t, eliminate_indices))
                       ELSE Chunk(<<P.items[i]>>)], P.panic)

\* right_store_indices: the join columns first, then the others in order
right_store_indices(ri, n) ==
    ri \o SelectSeq([i \in 1..n |-> i - 1], LAMBDA i : i \notin Range(ri))

\* the probe loop of materialized_join over the left stream L: every left
\* tuple is extended by the rows scan_prefix finds in the filled store
materialized_probe(L, throwaway, li, right_invert_indices, E) ==
    LET chunk(tuple) ==
            IF OutOfRange(li, tuple) THEN PanicChunk
            ELSE LET found == scan_prefix(throwaway, Pick(tuple, li))
                 IN  Chunk([k \in 1..Len(found) |->
                        Ok(eliminate(tuple \o Pick(found[k], right_invert_indices),
                                     E))])
    IN  flatten_ok([i \in 1..Len(L.items) |->
                       IF L.items[i].ok THEN chunk(L.items[i].t)
                       ELSE Chunk(<<L.items[i]>>)], L.panic)

\* materialized_join when the right child yields the stream R, the left child
\* the stream L, and put number fail_put fails: the stream returned, and
\* whether it pulls the left iterator
materialized_join_with(j, R, L, E, fail_put) ==
    LET right_bindings == bindings_after_eliminate(j.right)
        ji == join_indices(j.joiner, bindings_after_eliminate(j.left), right_bindings)
        Unpulled(s) == [stream |-> s, left_pulled |-> FALSE]
    IN  IF ~ji.ok THEN Unpulled(SetupPanic)
        ELSE
        LET store_indices == right_store_indices(ji.r, Len(right_bindings))
            so == StableOrder(store_indices)
            right_invert_indices == [k \in 1..Len(so) |-> so[k] - 1]
            short == {i \in 1..Len(R.items) :
                        R.items[i].ok /\ OutOfRange(store_indices, R.items[i].t)}
            n == IF short = {} THEN Len(R.items)
                 ELSE (CHOOSE i \in short : \A k \in short : i <= k) - 1
            filled == fill_loop(new_throwaway,
                          [i \in 1..n |->
                              IF R.items[i].ok
                              THEN Ok(Pick(R.items[i].t, store_indices))
                              ELSE R.items[i]],
                          fail_put, 0)
        IN  IF R.panic = "setup" THEN Unpulled(SetupPanic)
            ELSE IF filled.failed
            THEN Unpulled([items |-> <<filled.item>>, panic |-> "none"])
            ELSE IF short # {} \/ R.panic # "none" THEN Unpulled(SetupPanic)
            ELSE [stream |-> materialized_probe(L, filled.store, ji.l,
                                                right_invert_indices, E),
                  left_pulled |-> TRUE]

materialized_join(j, t, E, ep, ud) ==
    materialized_join_with(j, iter(j.right, t, ep, ud), iter(j.left, t, ep, ud),
                           E, 0).stream

InnerJoin_iter(j, t, ep, ud) ==
    LET bindings == InnerJoin_bindings(j)
        eliminate_indices == get_eliminate_indices(bindings, j.to_eliminate)
        ji == join_indices(j.joiner, bindings_after_eliminate(j.left),
                           bindings_after_eliminate(j.right))
    IN  CASE j.right.kind = "Fixed" ->
                IF ~ji.ok THEN SetupPanic
                ELSE InlineFixed_join(j.right, iter(j.left, t, ep, ud),
                                      ji.l, ji.r, eliminate_indices)
          [] j.right.kind = "Triple" ->
                IF ~ji.ok THEN SetupPanic
                ELSE LET L == iter(j.left, t, ep, ud)
                     IN  IF L.panic = "setup" THEN L
                         ELSE Triple_join(j.right, L, ji.l, ji.r, t, eliminate_indices)
          [] j.right.kind = "Derived" ->
                IF ~ji.ok THEN SetupPanic
                ELSE IF join_is_prefix(ji.r)
                THEN prefix_join(j.right, iter(j.left, t, ep, ud), ji.l, ji.r,
                                 eliminate_indices, ep, ud, t)
                ELSE materialized_join(j, t, eliminate_indices, ep, ud)
          [] j.right.kind \in {"Join", "Filter"} ->
                materialized_join(j, t, eliminate_indices, ep, ud)
          [] j.right.kind = "Reorder" -> SetupPanic

iter(r, t, ep, ud) ==
    CASE r.kind = "Fixed" -> [items |-> OkSeq(r.data), panic |-> "none"]
      [] r.kind = "Triple" ->
            [items |-> OkSeq(triple_a_before_scan(t, r.attr.id, r.vld)),
             panic |-> "none"]
      [] r.kind = "Derived" -> Derived_iter(r, t, ep, ud)
      [] r.kind = "Join" -> InnerJoin_iter(r, t, ep, ud)
      [] r.kind = "Reorder" -> Reorder_iter(r, t, ep, ud)
      [] r.kind = "Filter" -> Filtered_iter(r, t, ep, ud)

\* ------------------------------------------------------------ scratch stores
\* the variant of a join that allocates no store
throwaway_at_none(path) == <<>>

\* the new_throwaway call of the join node at `path`: one store, owned by the
\* iterator the node returns
throwaway_at(path) == <<[node |-> path, kept |-> TRUE]>>

\* the stores of an iterator that was dropped (drained, abandoned by an early
\* return, or unwound by a panic) before iter returned
Released(a) == [i \in 1..Len(a) |-> [a[i] EXCEPT !.kept = FALSE]]

\* v_no_index_join is the variant TripleRelation::join dispatches to
DispatchesNoIndex(r, ri) ==
    Len(ri) = 1 /\ ri[1] # 0 /\ ~r.attr.is_ref_type /\ ~r.attr.should_index

\* the new_throwaway calls made while iter(r) builds its iterator, in call
\* order, each with the node that made it and whether the store is still
\* owned by the returned iterator
RECURSIVE scratch_allocs(_, _, _, _, _)
RECURSIVE materialized_allocs(_, _, _, _, _)
RECURSIVE InnerJoin_allocs(_, _, _, _, _)

\* the right iterator was not drained to its end: an error item, or a panic
right_drain_stopped(j, R) ==
    LET ji == join_indices(j.joiner, bindings_after_eliminate(j.left),
                           bindings_after_eliminate(j.right))
        store_indices ==
            right_store_indices(ji.r, Len(bindings_after_eliminate(j.right)))
    IN  \/ R.panic # "none"
        \/ \E item \in Range(R.items) :
              ~item.ok \/ OutOfRange(store_indices, item.t)

materialized_allocs(j, t, ep, ud, path) ==
    IF right_drain_stopped(j, iter(j.right, t, ep, ud))
    THEN Released(throwaway_at(path)
                    \o scratch_allocs(j.right, t, ep, ud, Append(path, "right")))
    ELSE throwaway_at(path)
            \o Released(scratch_allocs(j.right, t, ep, ud, Append(path, "right")))
            \o scratch_allocs(j.left, t, ep, ud, Append(path, "left"))

InnerJoin_allocs(j, t, ep, ud, path) ==
    IF j.right.kind = "Reorder" THEN <<>>
    ELSE IF ~join_indices(j.joiner, bindings_after_eliminate(j.left),
                          bindings_after_eliminate(j.right)).ok THEN <<>>
    ELSE IF j.right.kind \in {"Join", "Filter"}
    THEN materialized_allocs(j, t, ep, ud, path)
    ELSE IF j.right.kind = "Derived" /\ ~join_is_prefix(
                join_indices(j.joiner, bindings_after_eliminate(j.left),
                             bindings_after_eliminate(j.right)).r)
    THEN materialized_allocs(j, t, ep, ud, path)
    ELSE
    LET LA == scratch_allocs(j.left, t, ep, ud, Append(path, "left"))
        ri == join_indices(j.joiner, bindings_after_eliminate(j.left),
                           bindings_after_eliminate(j.right)).r
    IN  IF iter(j.left, t, ep, ud).panic = "setup" THEN LA
        ELSE CASE j.right.kind = "Fixed" ->
                    IF Len(j.right.data) = 0 THEN Released(LA) ELSE LA
               [] j.right.kind = "Triple" ->
                    IF DispatchesNoIndex(j.right, ri)
                    THEN LA \o throwaway_at(path) ELSE LA
               [] j.right.kind = "Derived" ->
                    IF ep = <<0>> THEN Released(LA) ELSE LA

scratch_allocs(r, t, ep, ud, path) ==
    CASE r.kind \in {"Fixed", "Triple", "Derived"} -> <<>>
      [] r.kind = "Join" ->
            IF iter(r, t, ep, ud).panic = "setup"
            THEN Released(InnerJoin_allocs(r, t, ep, ud, path))
            ELSE InnerJoin_allocs(r, t, ep, ud, path)
      [] r.kind = "Reorder" ->
            IF \E k \in 1..Len(r.new_order) :
                  ~HasKey(bindings_after_eliminate(r.relation), r.new_order[k])
            THEN <<>>
            ELSE scratch_allocs(r.relation, t, ep, ud, Append(path, "relation"))
      [] r.kind = "Filter" ->
            scratch_allocs(r.parent, t, ep, ud, Append(path, "parent"))

\* SessionTx::new_throwaway, called Len(a) times: every call returns a store
\* with the next unused id; a store the call already dropped is released
allocate_throwaways(s, a) ==
    LET stores == [i \in 1..Len(a) |->
                      [id |-> s.next + i - 1, node |-> a[i].node, kept |-> a[i].kept]]
    IN  [next |-> s.next + Len(a),
         live |-> s.live \cup {stores[i].id : i \in {k \in 1..Len(a) : a[k].kept}},
         stores |-> stores]

\* dropping a TempStore releases it
release_throwaways(s, stores) ==
    s.live \ {stores[i].id : i \in 1..Len(stores)}

\* ------------------------------------------------- TripleRelation::neg_join
neg_ev_join(r, L, left_e_idx, left_v_idx, t) ==
    LET chunk(tuple) ==
            IF left_e_idx >= Len(tuple) THEN PanicChunk
            ELSE IF tuple[left_e_idx + 1].tag # "EnId" THEN Chunk(<<Err("type")>>)
            ELSE IF left_v_idx >= Len(tuple) THEN PanicChunk
            ELSE IF eav_exists(t, tuple[left_e_idx + 1].v, r.attr.id,
                               tuple[left_v_idx + 1], r.vld)
                 THEN Chunk(<<>>)
                 ELSE Chunk(<<Ok(tuple)>>)
    IN  flatten_ok([i \in 1..Len(L.items) |->
                       IF L.items[i].ok THEN chunk(L.items[i].t)
                       ELSE Chunk(<<L.items[i]>>)], L.panic)

\* variant of neg_e_join that keeps the probe tuples that do have a match
neg_e_join_keeps_matched(r, L, left_e_idx, t) ==
    LET chunk(tuple) ==
            IF left_e_idx >= Len(tuple) THEN PanicChunk
            ELSE IF tuple[left_e_idx + 1].tag # "EnId" THEN Chunk(<<Err("type")>>)
            ELSE IF triple_ea_before_scan(t, tuple[left_e_idx + 1].v,
                                          r.attr.id, r.vld) # <<>>
                 THEN Chunk(<<Ok(tuple)>>)
                 ELSE Chunk(<<>>)
    IN  flatten_ok([i \in 1..Len(L.items) |->
                       IF L.items[i].ok THEN chunk(L.items[i].t)
                       ELSE Chunk(<<L.items[i]>>)], L.panic)

neg_e_join(r, L, left_e_idx, t) ==
    LET chunk(tuple) ==
            IF left_e_idx >= Len(tuple) THEN PanicChunk
            ELSE IF tuple[left_e_idx + 1].tag # "EnId" THEN Chunk(<<Err("type")>>)
            ELSE IF triple_ea_before_scan(t, tuple[left_e_idx + 1].v,
                                          r.attr.id, r.vld) = <<>>
                 THEN Chunk(<<Ok(tuple)>>)
                 ELSE Chunk(<<>>)
    IN  flatten_ok([i \in 1..Len(L.items) |->
                       IF L.items[i].ok THEN chunk(L.items[i].t)
                       ELSE Chunk(<<L.items[i]>>)], L.panic)

neg_v_ref_join(r, L, left_v_idx, t) ==
    LET chunk(tuple) ==
            IF left_v_idx >= Len(tuple) THEN PanicChunk
            ELSE IF tuple[left_v_idx + 1].tag # "EnId" THEN Chunk(<<Err("type")>>)
            ELSE IF triple_vref_a_before_scan(t, tuple[left_v_idx + 1].v,
                                              r.attr.id, r.vld) = <<>>
                 THEN Chunk(<<Ok(tuple)>>)
                 ELSE Chunk(<<>>)
    IN  flatten_ok([i \in 1..Len(L.items) |->
                       IF L.items[i].ok THEN chunk(L.items[i].t)
                       ELSE Chunk(<<L.items[i]>>)], L.panic)

neg_v_index_join(r, L, left_v_idx, t) ==
    LET chunk(tuple) ==
            IF left_v_idx >= Len(tuple) THEN PanicChunk
            ELSE IF triple_av_before_scan(t, r.attr.id, tuple[left_v_idx + 1],
                                          r.vld) = <<>>
                 THEN Chunk(<<Ok(tuple)>>)
                 ELSE Chunk(<<>>)
    IN  flatten_ok([i \in 1..Len(L.items) |->
                       IF L.items[i].ok THEN chunk(L.items[i].t)
                       ELSE Chunk(<<L.items[i]>>)], L.panic)

neg_v_no_index_join(r, L, left_v_idx, t) ==
    LET scan == triple_a_before_scan(t, r.attr.id, r.vld)
        chunk(tuple) ==
            IF left_v_idx >= Len(tuple) THEN PanicChunk
            ELSE IF \E k \in 1..Len(scan) : tuple[left_v_idx + 1] = scan[k][2]
                 THEN Chunk(<<>>)
                 ELSE Chunk(<<Ok(tuple)>>)
    IN  flatten_ok([i \in 1..Len(L.items) |->
                       IF L.items[i].ok THEN chunk(L.items[i].t)
                       ELSE Chunk(<<L.items[i]>>)], L.panic)

Triple_neg_join(r, L, li, ri, t) ==
    CASE Len(ri) = 2 ->
            IF ri = <<0, 1>> THEN neg_ev_join(r, L, li[1], li[2], t)
            ELSE IF ri = <<1, 0>> THEN neg_ev_join(r, L, li[2], li[1], t)
            ELSE SetupPanic
      [] Len(ri) = 1 ->
            IF ri[1] = 0 THEN neg_e_join(r, L, li[1], t)
            ELSE IF r.attr.is_ref_type THEN neg_v_ref_join(r, L, li[1], t)
            ELSE IF r.attr.should_index THEN neg_v_index_join(r, L, li[1], t)
            ELSE neg_v_no_index_join(r, L, li[1], t)
      [] OTHER -> SetupPanic

\* ===================================================================== inputs
\* attributes: :parent is reference-typed, :name is value-indexed, :note is
\* neither
AttrParent == [id |-> 1, is_ref_type |-> TRUE, should_index |-> FALSE]
AttrName == [id |-> 2, is_ref_type |-> FALSE, should_index |-> TRUE]
AttrNote == [id |-> 3, is_ref_type |-> FALSE, should_index |-> FALSE]
Attrs == {AttrParent, AttrName, AttrNote}

Fact(e, a, v, t) == [e |-> e, a |-> a.id, v |-> v, t |-> t]

\* the facts of the transaction; the facts written at time 2 are not visible
\* to a scan at validity 1
Facts ==
    { Fact(1, AttrParent, EnId(2), 1), Fact(2, AttrParent, EnId(2), 1),
      Fact(3, AttrParent, EnId(1), 2),
      Fact(1, AttrName, DInt(1), 1), Fact(2, AttrName, DInt(1), 1),
      Fact(2, AttrName, DInt(2), 1), Fact(3, AttrName, DInt(1), 2),
      Fact(1, AttrNote, DInt(1), 1), Fact(2, AttrNote, DInt(1), 1),
      Fact(1, AttrNote, DInt(2), 1), Fact(3, AttrNote, DInt(2), 2) }

Vld == [ts |-> 1]

\* the derived store: epoch 0 holds the full contents, epoch k > 0 the delta
\* of that epoch
DerivedId == [id |-> 7]

Delta(k) ==
    {<<EnId(k), DInt(1)>>} \cup (IF k = 1 THEN {<<EnId(1), EnId(2)>>} ELSE {})

FullStore ==
    UNION {Delta(k) : k \in 1..MaxEpoch} \cup {<<EnId(2), EnId(2)>>}

DerivedStore ==
    [id |-> DerivedId.id,
     eps |-> [k \in 0..MaxEpoch |-> IF k = 0 THEN FullStore ELSE Delta(k)]]

TxInit == [facts |-> Facts, stores |-> [i \in {DerivedId.id} |-> DerivedStore]]

\* rows of a Fixed relation of two columns: a duplicate, a row whose first
\* column is no entity id
RowAt(i) ==
    CASE i % 4 = 1 -> <<EnId(1), DInt(1)>>
      [] i % 4 = 2 -> <<EnId(1), DInt(1)>>
      [] i % 4 = 3 -> <<DInt(1), EnId(2)>>
      [] OTHER -> <<EnId(2), EnId(2)>>

Rows(n) == [i \in 1..n |-> RowAt(i)]

P1 == <<"a", "b">>
P2 == <<"c", "d">>
P3 == <<"e", "f">>

Preds(p) == {Pred("eq", p[1], EnId(1)), Pred("gt", p[2], DInt(0))}

Leaves(p) ==
    {fixed(p, Rows(n)) : n \in 0..MaxRows}
        \cup {triple(at, Vld.ts, p[1], p[2]) : at \in Attrs}
        \cup {derived(p, DerivedId.id)}

LeftOps ==
    {unit, fixed(P1, Rows(1)), fixed(P1, Rows(MaxRows)),
     triple(AttrParent, Vld.ts, "a", "b"), derived(P1, DerivedId.id),
     filter(fixed(P1, Rows(MaxRows)), Pred("eq", "a", EnId(1))),
     reorder(fixed(P1, Rows(MaxRows)), <<"b", "a">>)}

RightOps ==
    Leaves(P2)
        \cup {filter(fixed(P2, Rows(MaxRows)), Pred("gt", "d", DInt(0))),
              filter(fixed(P2, Rows(MaxRows)), Pred("eq", "c", EnId(1))),
              filter(derived(P2, DerivedId.id), Pred("eq", "c", EnId(1))),
              reorder(fixed(P2, Rows(MaxRows)), <<"d", "c">>)}

\* joins as operands of a join
LeftJoin ==
    join(fixed(P1, Rows(MaxRows)), triple(AttrNote, Vld.ts, "e", "f"), <<"b">>, <<"f">>)

RightJoin ==
    join(fixed(P2, Rows(MaxRows)), triple(AttrName, Vld.ts, "e", "f"), <<"d">>, <<"f">>)

Keys(lk, rk) == [left_keys |-> lk, right_keys |-> rk]

KeyChoices ==
    {Keys(<<>>, <<>>),
     Keys(<<"a">>, <<"c">>), Keys(<<"a">>, <<"d">>),
     Keys(<<"b">>, <<"c">>), Keys(<<"b">>, <<"d">>),
     Keys(<<"a", "b">>, <<"c", "d">>), Keys(<<"a", "b">>, <<"d", "c">>),
     Keys(<<"b", "a">>, <<"c", "d">>), Keys(<<"a", "b">>, <<"c", "c">>)}

Joins ==
    {join(l, r, k.left_keys, k.right_keys) :
        l \in LeftOps \ {unit}, r \in RightOps, k \in KeyChoices}
        \cup {cartesian_join(unit, r) : r \in RightOps \cup {RightJoin}}

Nested ==
    {join(fixed(P1, Rows(MaxRows)), RightJoin, k.left_keys, k.right_keys) :
        k \in {Keys(<<>>, <<>>), Keys(<<"a">>, <<"c">>), Keys(<<"b", "a">>, <<"f", "c">>)}}
        \cup {join(LeftJoin, r, k.left_keys, k.right_keys) :
                r \in {fixed(P2, Rows(1)), derived(P2, DerivedId.id)},
                k \in {Keys(<<"a">>, <<"c">>), Keys(<<"f">>, <<"d">>)}}

\* a Filter or a Reorder over a Join
Wrapped ==
    LET j == join(fixed(P1, Rows(MaxRows)), triple(AttrName, Vld.ts, "c", "d"),
                  <<"a">>, <<"c">>)
        k == join(fixed(P1, Rows(MaxRows)), fixed(P2, Rows(MaxRows)), <<"b">>, <<"d">>)
    IN  {filter(j, Pred("eq", "d", DInt(1))), filter(k, Pred("gt", "b", DInt(0))),
         reorder(j, <<"d", "c", "b", "a">>), reorder(k, <<"c", "a", "d", "b">>),
         reorder(k, <<"a", "c">>), reorder(LeftJoin, <<"f", "e", "b", "a">>),
         filter(LeftJoin, Pred("eq", "f", DInt(1)))}

\* joins whose keys do not fit the children: a key no child binds, and three
\* key pairs on a Triple build side
Malformed ==
    {join(fixed(P1, Rows(1)), r, <<"a">>, <<"z">>) :
        r \in {fixed(P2, Rows(1)), triple(AttrName, Vld.ts, "c", "d"),
               derived(P2, DerivedId.id),
               filter(fixed(P2, Rows(MaxRows)), Pred("eq", "c", EnId(1)))}}
        \cup {join(fixed(P1, Rows(1)), derived(P2, DerivedId.id), <<"z">>, <<"c">>),
              join(fixed(P1, Rows(MaxRows)), triple(AttrName, Vld.ts, "c", "d"),
                   <<"a", "b", "a">>, <<"c", "d", "c">>)}

\* rows whose first tuple has an integer where an entity is expected and an
\* entity where an integer is expected
FaultedRows == <<RowAt(3), RowAt(1)>>

\* trees in which an error item is followed by tuples
Faulted ==
    LET f == filter(fixed(P1, FaultedRows), Pred("gt", "b", DInt(0)))
        e == join(fixed(P1, FaultedRows), triple(AttrName, Vld.ts, "c", "d"),
                  <<"a">>, <<"c">>)
    IN  {f, e, filter(e, Pred("eq", "a", EnId(1))), reorder(f, <<"b", "a">>),
         join(fixed(P1, FaultedRows), triple(AttrName, Vld.ts, "c", "d"),
              <<"a", "b">>, <<"c", "d">>),
         join(f, fixed(P2, Rows(MaxRows)), <<"a">>, <<"c">>),
         join(f, filter(fixed(P2, Rows(MaxRows)), Pred("eq", "c", EnId(1))),
              <<"a">>, <<"c">>),
         join(fixed(P1, Rows(MaxRows)),
              filter(fixed(P2, FaultedRows), Pred("gt", "d", DInt(0))),
              <<"b">>, <<"d">>)}

Trees ==
    Leaves(P1) \cup LeftOps \cup RightOps \cup Joins \cup Nested \cup Wrapped
        \cup Malformed \cup Faulted
        \cup {filter(l, q) : l \in Leaves(P1), q \in Preds(P1)}
        \cup {reorder(l, o) : l \in Leaves(P1), o \in {<<"b", "a">>, <<"a", "b">>, <<"b">>}}

Epochs == {<<>>} \cup {<<k>> : k \in 0..MaxEpoch}

DeltaSets == {{}, {DerivedId.id}}

Idle == [attr |-> AttrParent, probe |-> <<>>, li |-> <<>>, ri |-> <<>>, out |-> EmptyStream]

\* no operation called on its own yet
NoCall == [op |-> "none"]

\* no scratch store allocated yet, no iterator alive
NoScratch == [next |-> 1, live |-> {}, iters |-> <<>>]

\* =========================================================== the state machine
Init ==
    /\ rel \in Trees
    /\ orig = rel
    /\ used = <<>>
    /\ phase = "built"
    /\ tx = TxInit
    /\ epoch = <<>>
    /\ use_delta = {}
    /\ out = EmptyStream
    /\ neg = Idle
    /\ call = NoCall
    /\ scratch = NoScratch

\* Relation::eliminate_temp_vars(used), run once on the built tree
Eliminate(u) ==
    /\ phase = "built"
    /\ rel' = eliminate_temp_vars(rel, u)
    /\ used' = <<u>>
    /\ phase' = "eliminated"
    /\ UNCHANGED <<orig, tx, epoch, use_delta, out, neg, call, scratch>>

\* Relation::fill_predicate_binding_indices, run once before iteration
FillIndices ==
    /\ phase \in {"built", "eliminated"}
    /\ rel' = fill_predicate_binding_indices(rel)
    /\ phase' = "filled"
    /\ UNCHANGED <<orig, used, tx, epoch, use_delta, out, neg, call, scratch>>

\* Relation::iter(tx, epoch, use_delta), drained by the caller.  Iteration
\* leaves the tree and the transaction as they are, so a later iteration of
\* the same tree is this action taken with other arguments.
Iter(ep, ud) ==
    /\ phase = "filled"
    /\ out' = iter(rel, tx, ep, ud)
    /\ epoch' = ep
    /\ use_delta' = ud
    /\ phase' = "iterated"
    /\ UNCHANGED <<rel, orig, used, tx, neg, call, scratch>>

Next ==
    \/ \E u \in SUBSET Range(bindings_after_eliminate(rel)) : Eliminate(u)
    \/ FillIndices
    \/ \E ep \in Epochs, ud \in DeltaSets : Iter(ep, ud)

Spec == Init /\ [][Next]_vars

\* ------------------------------------------ TripleRelation::neg_join, on its own
\* probe tuples of two columns: matching facts, matching none, and one whose
\* first column is no entity id
ProbeTuples ==
    {<<EnId(1), DInt(1)>>, <<EnId(2), EnId(2)>>, <<DInt(1), EnId(2)>>,
     <<EnId(3), DInt(3)>>, <<EnId(1), DInt(2)>>}

RECURSIVE SeqsUpTo(_, _)
SeqsUpTo(S, n) ==
    IF n = 0 THEN {<<>>}
    ELSE LET shorter == SeqsUpTo(S, n - 1)
         IN  shorter \cup {Append(q, x) : q \in shorter, x \in S}

Probes == SeqsUpTo(ProbeTuples, MaxProbe)

\* join indices over a probe of two columns and the two triple columns
IndexPairs ==
    {[l |-> <<l1>>, r |-> <<r1>>] : l1 \in 0..1, r1 \in 0..1}
        \cup {[l |-> <<l1, l2>>, r |-> <<r1, r2>>] :
                l1 \in 0..1, l2 \in 0..1, r1 \in 0..1, r2 \in 0..1}

InitNeg ==
    /\ rel = unit
    /\ orig = unit
    /\ used = <<>>
    /\ phase = "built"
    /\ tx = TxInit
    /\ epoch = <<>>
    /\ use_delta = {}
    /\ out = EmptyStream
    /\ neg = Idle
    /\ call = NoCall
    /\ scratch = NoScratch

\* TripleRelation::neg_join(left_iter, (left_join_indices, right_join_indices), tx)
\* (a pure call on the transaction: one call per behaviour covers every input)
NegJoin(attr, probe, ix) ==
    /\ neg = Idle
    /\ neg' = [attr |-> attr, probe |-> probe, li |-> ix.l, ri |-> ix.r,
               out |-> Triple_neg_join(triple(attr, Vld.ts, "e", "v"),
                                       [items |-> OkSeq(probe), panic |-> "none"],
                                       ix.l, ix.r, tx)]
    /\ UNCHANGED <<rel, orig, used, phase, tx, epoch, use_delta, out, call, scratch>>

NextNeg == \E attr \in Attrs, probe \in Probes, ix \in IndexPairs : NegJoin(attr, probe, ix)

SpecNeg == InitNeg /\ [][NextNeg]_vars

\* ------------------------------------------------ Joiner::join_indices, on its own
\* binding lists of the two children, without repeated names
LeftBindingLists == {<<>>, <<"a">>, <<"a", "b">>, <<"b", "a">>}
RightBindingLists == {<<>>, <<"c">>, <<"c", "d">>, <<"d", "c">>}

\* key lists of equal length (the Joiner's invariant); "z" is bound nowhere
Joiners ==
    {k \in {Keys(lk, rk) : lk \in SeqsUpTo({"a", "b", "z"}, MaxKeys),
                           rk \in SeqsUpTo({"c", "d", "z"}, MaxKeys)} :
        Len(k.left_keys) = Len(k.right_keys)}

\* the state before an operation is called on its own
InitCall ==
    /\ rel = unit
    /\ orig = unit
    /\ used = <<>>
    /\ phase = "built"
    /\ tx = TxInit
    /\ epoch = <<>>
    /\ use_delta = {}
    /\ out = EmptyStream
    /\ neg = Idle
    /\ call = NoCall
    /\ scratch = NoScratch

\* Joiner::join_indices(left_bindings, right_bindings)
JoinIndices(joiner, lb, rb) ==
    /\ call = NoCall
    /\ call' = [op |-> "join_indices", joiner |-> joiner,
                left_bindings |-> lb, right_bindings |-> rb,
                result |-> join_indices(joiner, lb, rb)]
    /\ UNCHANGED <<rel, orig, used, phase, tx, epoch, use_delta, out, neg, scratch>>

NextJoiner ==
    \E joiner \in Joiners, lb \in LeftBindingLists, rb \in RightBindingLists :
        JoinIndices(joiner, lb, rb)

SpecJoiner == InitCall /\ [][NextJoiner]_vars

\* ------------------------------------ StoredDerivedRelation::neg_join, on its own
\* StoredDerivedRelation::neg_join(left_iter, (left_join_indices, right_join_indices))
DerivedNegJoin(probe, ix) ==
    /\ call = NoCall
    /\ call' = [op |-> "Derived_neg_join", probe |-> probe, li |-> ix.l, ri |-> ix.r,
                result |-> Derived_neg_join(derived(P2, DerivedId.id),
                                            [items |-> OkSeq(probe), panic |-> "none"],
                                            ix.l, ix.r, tx)]
    /\ UNCHANGED <<rel, orig, used, phase, tx, epoch, use_delta, out, neg, scratch>>

NextDerivedNeg == \E probe \in Probes, ix \in IndexPairs : DerivedNegJoin(probe, ix)

SpecDerivedNeg == InitCall /\ [][NextDerivedNeg]_vars

\* ------------------------------------------------ iterators and scratch stores
\* trees with no, one or several joins that use a scratch store
ScratchTrees ==
    Nested \cup Wrapped \cup Malformed
        \cup {join(fixed(P1, Rows(MaxRows)), r, <<"b">>, <<"d">>) : r \in RightOps}
        \cup {join(LeftJoin, r, <<"a">>, <<"c">>) :
                r \in {fixed(P2, Rows(0)), triple(AttrNote, Vld.ts, "c", "d")}}
        \cup {join(fixed(P1, Rows(MaxRows)),
                   join(fixed(P2, Rows(MaxRows)), triple(AttrNote, Vld.ts, "e", "f"),
                        <<"d">>, <<"f">>),
                   <<"a">>, <<"c">>),
              join(fixed(P1, Rows(MaxRows)),
                   join(fixed(P2, Rows(MaxRows)),
                        filter(fixed(P3, Rows(1)), Pred("eq", "e", EnId(1))),
                        <<"c">>, <<"e">>),
                   <<"a">>, <<"c">>),
              join(LeftJoin, derived(P2, DerivedId.id), <<"a">>, <<"d">>)}

InitScratch ==
    /\ rel \in {fill_predicate_binding_indices(r) : r \in ScratchTrees}
    /\ orig = rel
    /\ used = <<>>
    /\ phase = "filled"
    /\ tx = TxInit
    /\ epoch = <<>>
    /\ use_delta = {}
    /\ out = EmptyStream
    /\ neg = Idle
    /\ call = NoCall
    /\ scratch = NoScratch

\* Relation::iter(tx, epoch, use_delta): the caller keeps the iterator
IterKeep(ep, ud) ==
    /\ Len(scratch.iters) < MaxIters
    /\ scratch.next <= MaxStoreId
    /\ \E made \in {scratch_allocs(rel, tx, ep, ud, <<>>)}, stream \in {iter(rel, tx, ep, ud)} :
          \E a \in {allocate_throwaways(scratch, made)} :
             scratch' = [next |-> a.next, live |-> a.live,
                         iters |-> Append(scratch.iters,
                                     [epoch |-> ep, use_delta |-> ud,
                                      stores |-> a.stores,
                                      clean |-> stream.panic = "none"
                                                   /\ \A item \in Range(stream.items) :
                                                         item.ok])]
    /\ UNCHANGED <<rel, orig, used, phase, tx, epoch, use_delta, out, neg, call>>

\* the caller drops iterator number i
DropIter(i) ==
    /\ i \in 1..Len(scratch.iters)
    /\ scratch' = [scratch EXCEPT
            !.live = release_throwaways(scratch, scratch.iters[i].stores),
            !.iters = [k \in 1..(Len(scratch.iters) - 1) |->
                          IF k < i THEN scratch.iters[k] ELSE scratch.iters[k + 1]]]
    /\ UNCHANGED <<rel, orig, used, phase, tx, epoch, use_delta, out, neg, call>>

NextScratch ==
    \/ \E ep \in Epochs, ud \in DeltaSets : IterKeep(ep, ud)
    \/ \E i \in 1..MaxIters : DropIter(i)

SpecScratch == InitScratch /\ [][NextScratch]_vars

\* ------------------------------------------------ filling a scratch store
\* joins served by materialized_join or by v_no_index_join
FillTrees ==
    {join(fixed(P1, Rows(MaxRows)), r, k.left_keys, k.right_keys) :
        r \in {filter(fixed(P2, Rows(MaxRows)), Pred("gt", "d", DInt(0))),
               filter(fixed(P2, FaultedRows), Pred("gt", "d", DInt(0))),
               filter(fixed(P2, Rows(MaxRows)), Pred("eq", "c", EnId(1))),
               triple(AttrNote, Vld.ts, "c", "d")},
        k \in {Keys(<<"b">>, <<"d">>), Keys(<<"a">>, <<"d">>)}}
        \cup {join(fixed(P1, Rows(MaxRows)), derived(P2, DerivedId.id),
                   <<"b">>, <<"d">>),
              join(fixed(P1, Rows(MaxRows)), RightJoin, <<"a">>, <<"c">>),
              join(fixed(P1, Rows(0)),
                   filter(fixed(P2, FaultedRows), Pred("gt", "d", DInt(0))),
                   <<"b">>, <<"d">>)}

\* the items of a storage scan that yields an error in place of item number k
\* (0: the scan does not fail)
scan_failing_at(found, k) ==
    [i \in 1..Len(found) |-> IF i = k THEN Err("storage") ELSE Ok(found[i])]

InitFill ==
    /\ rel \in {fill_predicate_binding_indices(r) : r \in FillTrees}
    /\ orig = rel
    /\ used = <<>>
    /\ phase = "filled"
    /\ tx = TxInit
    /\ epoch = <<>>
    /\ use_delta = {}
    /\ out = EmptyStream
    /\ neg = Idle
    /\ call = NoCall
    /\ scratch = NoScratch

\* InnerJoin::materialized_join on the join, with put number fail_put failing
MaterializedJoin(ep, ud, fail_put) ==
    /\ call = NoCall
    /\ rel.right.kind # "Triple"
    /\ \E R \in {iter(rel.right, tx, ep, ud)}, L \in {iter(rel.left, tx, ep, ud)} :
          call' = [op |-> "materialized_join", source |-> R.items,
                   fail_put |-> fail_put,
                   result |-> materialized_join_with(rel, R, L,
                                 get_eliminate_indices(InnerJoin_bindings(rel),
                                                       rel.to_eliminate),
                                 fail_put)]
    /\ epoch' = ep
    /\ use_delta' = ud
    /\ UNCHANGED <<rel, orig, used, phase, tx, out, neg, scratch>>

\* TripleRelation::v_no_index_join on the join, with the attribute scan
\* failing at item scan_fail and put number fail_put failing
VNoIndexJoin(scan_fail, fail_put) ==
    /\ call = NoCall
    /\ rel.right.kind = "Triple"
    /\ \E ji \in {join_indices(rel.joiner, bindings_after_eliminate(rel.left),
                                bindings_after_eliminate(rel.right))},
          scan \in {scan_failing_at(
                       triple_a_before_scan(tx, rel.right.attr.id, rel.right.vld),
                       scan_fail)} :
          call' = [op |-> "v_no_index_join", source |-> scan,
                   fail_put |-> fail_put,
                   result |-> v_no_index_join_with(rel.right,
                                 iter(rel.left, tx, epoch, use_delta), ji.l[1], tx,
                                 get_eliminate_indices(InnerJoin_bindings(rel),
                                                       rel.to_eliminate),
                                 scan, fail_put)]
    /\ UNCHANGED <<rel, orig, used, phase, tx, epoch, use_delta, out, neg, scratch>>

NextFill ==
    \/ \E ep \in Epochs, ud \in DeltaSets, fail_put \in 0..MaxFault :
          MaterializedJoin(ep, ud, fail_put)
    \/ \E scan_fail \in 0..MaxFault, fail_put \in 0..MaxFault :
          VNoIndexJoin(scan_fail, fail_put)

SpecFill == InitFill /\ [][NextFill]_vars

\* ===================================================================== claims
OkTuples(s) ==
    LET oks == SelectSeq(s.items, LAMBDA it : it.ok)
    IN  [i \in 1..Len(oks) |-> oks[i].t]

ErrItems(s) == SelectSeq(s.items, LAMBDA it : ~it.ok)

BagOfSeq(s) == [x \in Range(s) |-> Cardinality({i \in 1..Len(s) : s[i] = x})]

RECURSIVE Concat(_)
Concat(ss) == IF ss = <<>> THEN <<>> ELSE Head(ss) \o Concat(Tail(ss))

Iterated == phase = "iterated"
Eliminated == used # <<>>

\* the tree as built, with its predicates resolved, iterated with the
\* arguments of the last iter call
BaseRun == iter(fill_predicate_binding_indices(orig), tx, epoch, use_delta)

\* tuple t over the binding list B restricted to the columns in U
ProjectOnto(t, B, U) ==
    DropIdx(t, {i - 1 : i \in {j \in 1..Len(B) : B[j] \notin U}}, 1)

\* C1: after eliminate_temp_vars(used), iter yields the multiset of tuples that
\* iter yields on the tree without elimination, projected onto the columns in
\* `used` (stated for the trees whose top node carries an elimination set:
\* Fixed, Join, Filter).
C1_EliminationPreservesTuples ==
    (Iterated /\ Eliminated /\ has_eliminate_set(rel)) =>
        LET B == bindings_after_eliminate(orig)
            base == OkTuples(BaseRun)
        IN  /\ out.panic = BaseRun.panic
            /\ BagOfSeq(OkTuples(out)) =
                   BagOfSeq([i \in 1..Len(base) |-> ProjectOnto(base[i], B, used[1])])

\* the top node is a Join that eliminates nothing, and its keys resolve
PlainJoin ==
    /\ rel.kind = "Join"
    /\ rel.to_eliminate = {}
    /\ join_indices(rel.joiner, bindings_after_eliminate(rel.left),
                    bindings_after_eliminate(rel.right)).ok

JoinL == join_indices(rel.joiner, bindings_after_eliminate(rel.left),
                      bindings_after_eliminate(rel.right)).l
JoinR == join_indices(rel.joiner, bindings_after_eliminate(rel.left),
                      bindings_after_eliminate(rel.right)).r
LeftWidth == Len(bindings_after_eliminate(rel.left))
RightWidth == Len(bindings_after_eliminate(rel.right))

\* C2: every tuple o emitted by a Join with empty elimination set has length
\* |left| + |right| and o[L[i]] = o[|left| + R[i]] for every i, whatever the
\* physical strategy (stated for a Triple build side, on trees no elimination
\* pass has touched).
C2_JoinOutputShape ==
    (Iterated /\ ~Eliminated /\ PlainJoin /\ rel.right.kind = "Triple") =>
        \A i \in 1..Len(out.items) :
            out.items[i].ok =>
                LET o == out.items[i].t
                IN  /\ Len(o) = LeftWidth + RightWidth
                    /\ \A k \in 1..Len(JoinL) :
                          o[JoinL[k] + 1] = o[LeftWidth + JoinR[k] + 1]

\* C3: every tuple iter emits has exactly as many values as
\* bindings_after_eliminate() has bindings, before or after the elimination
\* pass; in particular a Fixed node whose elimination set is non-empty emits
\* rows without the eliminated columns (stated for a Fixed node at top level).
C3_TupleWidthMatchesBindings ==
    (Iterated /\ rel.kind = "Fixed") =>
        \A i \in 1..Len(out.items) :
            out.items[i].ok =>
                Len(out.items[i].t) = Len(bindings_after_eliminate(rel))

\* the top node is a Join served by StoredDerivedRelation::prefix_join
PrefixJoined ==
    /\ rel.kind = "Join"
    /\ rel.right.kind = "Derived"
    /\ join_indices(rel.joiner, bindings_after_eliminate(rel.left),
                    bindings_after_eliminate(rel.right)).ok
    /\ join_is_prefix(JoinR)

\* C4: at epoch Some(0) a Derived node yields nothing, whatever the store
\* holds and whether or not its id is in use_delta, and so does a Join served
\* by prefix_join on a Derived right child.
C4_EpochZeroIsEmpty ==
    (Iterated /\ epoch = <<0>> /\ (rel.kind = "Derived" \/ PrefixJoined)) =>
        out.items = <<>>

C4_Witness ==
    /\ Iterated /\ epoch = <<0>> /\ PrefixJoined
    /\ use_delta = {DerivedId.id}
    /\ out = EmptyStream
    /\ iter(rel, tx, <<>>, use_delta).items # <<>>

C4_WitnessDerived ==
    /\ Iterated /\ epoch = <<0>> /\ rel.kind = "Derived"
    /\ tx.stores[rel.storage].eps[0] # {}
    /\ out = EmptyStream

\* the delta a Derived node with its id in use_delta reads at epoch Some(k)
DeltaRead == tx.stores[DerivedId.id].eps[epoch[1] - 1]

DeltaEpoch == epoch # <<>> /\ epoch # <<0>> /\ DerivedId.id \in use_delta

\* C5: with the store id in use_delta and k > 0, a Derived node iterated at
\* Some(k) yields exactly the tuples stored under epoch k-1, and prefix_join
\* at Some(k) emits, for each probe tuple, exactly the tuples of that delta
\* that match it on the join columns.
C5_DeltaAtPreviousEpoch ==
    /\ (Iterated /\ DeltaEpoch /\ rel.kind = "Derived") =>
          /\ out.panic = "none" /\ ErrItems(out) = <<>>
          /\ Range(OkTuples(out)) = DeltaRead
          /\ Len(out.items) = Cardinality(DeltaRead)
    /\ (Iterated /\ DeltaEpoch /\ PrefixJoined /\ rel.to_eliminate = {}) =>
          LET L == iter(rel.left, tx, epoch, use_delta)
              matches(l) == SortTuples({s \in DeltaRead :
                                \A k \in 1..Len(JoinL) :
                                    l[JoinL[k] + 1] = s[JoinR[k] + 1]})
              expect(it) == IF ~it.ok THEN <<it>>
                            ELSE LET m == matches(it.t)
                                 IN  [k \in 1..Len(m) |-> Ok(it.t \o m[k])]
          IN  IF \E i \in 1..Len(L.items) :
                    L.items[i].ok /\ OutOfRange(JoinL, L.items[i].t)
              THEN \A i \in 1..Len(out.items) :
                      out.items[i].ok =>
                          \E s \in DeltaRead : IsPrefix(s,
                              SubSeq(out.items[i].t,
                                     Len(out.items[i].t) - Len(s) + 1,
                                     Len(out.items[i].t)))
              ELSE out.items = Concat([i \in 1..Len(L.items) |-> expect(L.items[i])])

C5_Witness ==
    /\ Iterated /\ DeltaEpoch /\ PrefixJoined /\ rel.to_eliminate = {}
    /\ epoch = <<2>>
    /\ Len(JoinR) = 2
    /\ OkTuples(out) # <<>>
    /\ out.items # iter(rel, tx, <<>>, use_delta).items

\* C6: with the store id not in use_delta, a Derived node iterated at Some(k),
\* k > 0, yields what it yields at epoch None: the full store (epoch 0).
C6_NoDeltaReadsFullStore ==
    (Iterated /\ rel.kind = "Derived" /\ epoch # <<>> /\ epoch # <<0>>
        /\ rel.storage \notin use_delta) =>
        /\ out = iter(rel, tx, <<>>, use_delta)
        /\ out.items = OkSeq(SortTuples(tx.stores[rel.storage].eps[0]))

C6_Witness ==
    /\ Iterated /\ rel.kind = "Derived" /\ epoch = <<2>>
    /\ rel.storage \notin use_delta
    /\ Len(out.items) = Cardinality(FullStore)
    /\ tx.stores[rel.storage].eps[1] # tx.stores[rel.storage].eps[0]

\* the top node is a Join of the Unit relation with a right child a Join may
\* have, no keys, nothing eliminated, and the right child alone yields tuples
\* only (no error item, no panic)
UnitJoin ==
    /\ rel.kind = "Join"
    /\ is_unit(rel.left)
    /\ rel.joiner.left_keys = <<>> /\ rel.joiner.right_keys = <<>>
    /\ rel.to_eliminate = {}
    /\ rel.right.kind # "Reorder"
    /\ iter(rel.right, tx, epoch, use_delta).panic = "none"
    /\ ErrItems(iter(rel.right, tx, epoch, use_delta)) = <<>>

\* C8: a Join whose left child is Unit and whose key lists are empty yields,
\* duplicates included, the multiset of tuples its right child yields alone.
C8_UnitJoinIsRight ==
    (Iterated /\ UnitJoin) =>
        /\ out.panic = "none"
        /\ BagOfSeq(OkTuples(out)) =
               BagOfSeq(OkTuples(iter(rel.right, tx, epoch, use_delta)))

\* the j-th smallest member of a set of integers
Nth(S, j) == CHOOSE i \in S : Cardinality({k \in S : k < i}) = j - 1

\* C9: a Filter emits, in parent order, exactly the parent tuples on which the
\* predicate evaluates to true, with the filter's elimination positions
\* removed; it drops those evaluating to false; an item that is no tuple comes
\* out only for a parent error or a failed evaluation.
C9_FilterKeepsTrueTuples ==
    (Iterated /\ rel.kind = "Filter") =>
        LET P == iter(rel.parent, tx, epoch, use_delta)
            E == get_eliminate_indices(bindings_after_eliminate(rel.parent),
                                       rel.to_eliminate)
            kept == {i \in 1..Len(P.items) :
                        P.items[i].ok /\ eval_pred(rel.pred, P.items[i].t) = "true"}
            failed == {i \in 1..Len(P.items) :
                        ~P.items[i].ok \/ eval_pred(rel.pred, P.items[i].t) = "err"}
        IN  /\ out.panic = P.panic
            /\ OkTuples(out) =
                   [j \in 1..Cardinality(kept) |-> DropIdx(P.items[Nth(kept, j)].t, E, 1)]
            /\ Len(ErrItems(out)) = Cardinality(failed)

C9_Witness ==
    /\ Iterated /\ Eliminated /\ rel.kind = "Filter"
    /\ rel.to_eliminate # {}
    /\ LET P == iter(rel.parent, tx, epoch, use_delta)
       IN  /\ \E i \in 1..Len(P.items) :
                 P.items[i].ok /\ eval_pred(rel.pred, P.items[i].t) = "false"
           /\ \E i \in 1..Len(P.items) :
                 P.items[i].ok /\ eval_pred(rel.pred, P.items[i].t) = "true"
           /\ Len(OkTuples(out)) >= 2
           /\ \A i \in 1..Len(out.items) :
                 out.items[i].ok => Len(out.items[i].t) < Len(P.items[1].t)

IsPermutation(a, b) ==
    /\ Len(a) = Len(b)
    /\ Range(a) = Range(b)
    /\ Cardinality(Range(a)) = Len(a)

\* C10: when new_order is a permutation of the child's post-elimination
\* bindings, a Reorder emits one tuple per child tuple, in child order, whose
\* j-th value is the child tuple's value for binding new_order[j].
C10_ReorderPermutes ==
    (Iterated /\ rel.kind = "Reorder"
        /\ IsPermutation(rel.new_order, bindings_after_eliminate(rel.relation))) =>
        LET C == iter(rel.relation, tx, epoch, use_delta)
            B == bindings_after_eliminate(rel.relation)
        IN  /\ out.panic = C.panic
            /\ Len(out.items) = Len(C.items)
            /\ \A i \in 1..Len(C.items) :
                  IF C.items[i].ok
                  THEN /\ out.items[i].ok
                       /\ Len(out.items[i].t) = Len(rel.new_order)
                       /\ \A j \in 1..Len(rel.new_order) :
                             /\ IndexOf(B, rel.new_order[j]) < Len(C.items[i].t)
                             /\ out.items[i].t[j] =
                                    C.items[i].t[IndexOf(B, rel.new_order[j]) + 1]
                  ELSE out.items[i] = C.items[i]

\* ------------------------------------------------------------------ C7
\* TripleRelation::join on the inputs of the last neg_join call
NegJoinRun ==
    Triple_join(triple(neg.attr, Vld.ts, "e", "v"),
                [items |-> OkSeq(neg.probe), panic |-> "none"],
                neg.li, neg.ri, tx, {})

NegCalled == neg.ri # <<>>

\* probe tuple t is kept by neg_join / extended by at least one output of join
Kept(t) == t \in Range(OkTuples(neg.out))
Extended(t) ==
    \E i \in 1..Len(NegJoinRun.items) :
        /\ NegJoinRun.items[i].ok
        /\ Len(NegJoinRun.items[i].t) > Len(t)
        /\ IsPrefix(t, NegJoinRun.items[i].t)

\* C7 as stated: for |R| in {1, 2} every probe tuple is kept by neg_join or
\* extended by join, never both and never neither.
C7_NegJoinComplementsJoin ==
    NegCalled => \A t \in Range(neg.probe) : Kept(t) # Extended(t)

\* the right index patterns the dispatch serves
ValidPattern == neg.ri \in {<<0>>, <<1>>, <<0, 1>>, <<1, 0>>}

\* the probe column whose value must be an entity id: the one joined to the
\* entity column, or to the value column of a reference-typed attribute
EntityColumns ==
    {neg.li[k] : k \in {j \in 1..Len(neg.ri) :
        neg.ri[j] = 0 \/ (Len(neg.ri) = 1 /\ neg.attr.is_ref_type)}}

EntityTyped(t) == \A c \in EntityColumns : t[c + 1].tag = "EnId"

\* some visible triple of the attribute equals t on every paired column
Matched(t) ==
    \E f \in Visible(tx, neg.attr.id, Vld.ts) :
        \A k \in 1..Len(neg.ri) :
            t[neg.li[k] + 1] = (IF neg.ri[k] = 0 THEN EnId(f.e) ELSE f.v)

\* C7 amended: for R one of [0], [1], [0,1], [1,0], a probe tuple whose entity
\* columns hold entity ids is kept by neg_join iff no triple matches it and
\* extended by join iff one does (exactly one of the two); a probe tuple with
\* another kind of value there is in neither group, and neg_join and join both
\* yield a type error item.
C7_Amended ==
    (NegCalled /\ ValidPattern) =>
        /\ neg.out.panic = "none" /\ NegJoinRun.panic = "none"
        /\ \A t \in Range(neg.probe) :
              IF EntityTyped(t)
              THEN /\ Kept(t) = ~Matched(t)
                   /\ Extended(t) = Matched(t)
              ELSE /\ ~Kept(t) /\ ~Extended(t)
                   /\ ErrItems(neg.out) # <<>> /\ ErrItems(NegJoinRun) # <<>>
        /\ Len(ErrItems(neg.out)) =
               Cardinality({i \in 1..Len(neg.probe) : ~EntityTyped(neg.probe[i])})

C7_Witness ==
    /\ NegCalled /\ neg.ri = <<1>> /\ ~neg.attr.is_ref_type /\ ~neg.attr.should_index
    /\ Len(neg.probe) = 2
    /\ Kept(neg.probe[1]) /\ ~Extended(neg.probe[1])
    /\ Extended(neg.probe[2]) /\ ~Kept(neg.probe[2])

\* ------------------------------------------------------------------ C11
\* the top node is a Join served by InnerJoin::materialized_join, nothing is
\* eliminated at the join, and both children yield tuples only
MaterializedJoined ==
    /\ PlainJoin
    /\ \/ rel.right.kind \in {"Join", "Filter"}
       \/ rel.right.kind = "Derived" /\ ~join_is_prefix(JoinR)
    /\ LET L == iter(rel.left, tx, epoch, use_delta)
           R == iter(rel.right, tx, epoch, use_delta)
       IN  /\ L.panic = "none" /\ ErrItems(L) = <<>>
           /\ R.panic = "none" /\ ErrItems(R) = <<>>
           /\ \A i \in 1..Len(L.items) : Len(L.items[i].t) = LeftWidth
           /\ \A i \in 1..Len(R.items) : Len(R.items[i].t) = RightWidth

\* the stored right tuples matching probe tuple l on the keys
MatchingRight(l) ==
    {s \in Range(OkTuples(iter(rel.right, tx, epoch, use_delta))) :
        \A k \in 1..Len(JoinL) : l[JoinL[k] + 1] = s[JoinR[k] + 1]}

\* C11: a materialized join emits, for each probe tuple and each stored right
\* tuple matching it on the keys, probe ++ the right tuple in the right
\* child's column order, whatever the order or repetition of the right keys.
C11_MaterializedJoinOrder ==
    (Iterated /\ MaterializedJoined) =>
        LET L == OkTuples(iter(rel.left, tx, epoch, use_delta))
            emitted(l) == {o \in Range(OkTuples(out)) :
                              Len(o) >= Len(l) /\ IsPrefix(l, o)}
        IN  /\ out.panic = "none" /\ ErrItems(out) = <<>>
            /\ \A i \in 1..Len(L) :
                  emitted(L[i]) = {L[i] \o s : s \in MatchingRight(L[i])}
            /\ \A o \in Range(OkTuples(out)) : \E i \in 1..Len(L) : o \in emitted(L[i])

\* the same, for right key lists without a repeated column
C11_DistinctKeys ==
    (Iterated /\ MaterializedJoined
        /\ Cardinality(Range(JoinR)) = Len(JoinR)) => C11_MaterializedJoinOrder

\* ------------------------------------------------------------------ C12
\* o is a subtree as built and r the same subtree after the pass: every key of
\* a Join and every binding of a Filter's predicate that the child offered
\* before the pass is among the child's bindings after it
RECURSIVE KeysKept(_, _)
KeysKept(o, r) ==
    CASE r.kind = "Join" ->
            /\ \A k \in Range(r.joiner.left_keys) :
                  k \in Range(bindings_after_eliminate(o.left)) =>
                      k \in Range(bindings_after_eliminate(r.left))
            /\ \A k \in Range(r.joiner.right_keys) :
                  k \in Range(bindings_after_eliminate(o.right)) =>
                      k \in Range(bindings_after_eliminate(r.right))
            /\ KeysKept(o.left, r.left)
            /\ KeysKept(o.right, r.right)
      [] r.kind = "Filter" ->
            /\ \A b \in pred_bindings(r.pred) :
                  b \in Range(bindings_after_eliminate(o.parent)) =>
                      b \in Range(bindings_after_eliminate(r.parent))
            /\ KeysKept(o.parent, r.parent)
      [] r.kind = "Reorder" -> KeysKept(o.relation, r.relation)
      [] OTHER -> TRUE

\* C12: after eliminate_temp_vars(used), for any `used`, every left key is
\* still among the left child's bindings, every right key among the right
\* child's, and every predicate binding among the Filter's parent's bindings.
C12_KeysSurviveElimination == Eliminated => KeysKept(orig, rel)

C12_Witness ==
    /\ Eliminated /\ used[1] = {}
    /\ rel.kind = "Join" /\ rel.right.kind = "Filter"
    /\ rel.joiner.left_keys = <<"b">> /\ rel.joiner.right_keys = <<"c">>
    /\ rel.left.kind = "Fixed" /\ rel.left.to_eliminate = {"a"}
    /\ rel.right.to_eliminate = {"d"}
    /\ bindings_after_eliminate(rel.right.parent) = <<"c", "d">>

\* ------------------------------------------------------------------ C13
\* the nodes of a tree
RECURSIVE Nodes(_)
Nodes(r) ==
    CASE r.kind = "Join" -> {r} \cup Nodes(r.left) \cup Nodes(r.right)
      [] r.kind = "Filter" -> {r} \cup Nodes(r.parent)
      [] r.kind = "Reorder" -> {r} \cup Nodes(r.relation)
      [] OTHER -> {r}

\* the elimination set of a node, empty for the kinds that have none
EliminationSet(n) == IF has_eliminate_set(n) THEN n.to_eliminate ELSE {}

\* a is b with some elements left out, the others in their order
RECURSIVE IsSubsequence(_, _)
IsSubsequence(a, b) ==
    IF a = <<>> THEN TRUE
    ELSE IF b = <<>> THEN FALSE
    ELSE IF Head(a) = Head(b) THEN IsSubsequence(Tail(a), Tail(b))
    ELSE IsSubsequence(a, Tail(b))

\* C13: for every node, at every point of the lifecycle,
\* bindings_after_eliminate() is bindings_before_eliminate() without exactly
\* the members of the node's elimination set, the others in their original
\* order; the two lists are equal for Triple, Derived and Reorder.
C13_AfterIsBeforeMinusEliminated ==
    \A n \in Nodes(rel) :
        LET before == bindings_before_eliminate(n)
            after == bindings_after_eliminate(n)
        IN  /\ IsSubsequence(after, before)
            /\ Range(after) = Range(before) \ EliminationSet(n)
            /\ Len(after) = Cardinality({i \in 1..Len(before) :
                                            before[i] \notin EliminationSet(n)})
            /\ n.kind \in {"Triple", "Derived", "Reorder"} => after = before

C13_Witness ==
    /\ Iterated /\ rel.kind = "Join"
    /\ rel.to_eliminate = {"b", "c"}
    /\ bindings_before_eliminate(rel) = <<"a", "c", "d">>
    /\ bindings_after_eliminate(rel) = <<"a", "d">>

\* ------------------------------------------------------------------ C14
JoinerCalled == call.op = "join_indices"

\* every key of the Joiner is among the bindings of its side
AllKeysPresent ==
    /\ Range(call.joiner.left_keys) \subseteq Range(call.left_bindings)
    /\ Range(call.joiner.right_keys) \subseteq Range(call.right_bindings)

\* C14: with every key present, join_indices returns (L, R) of equal length
\* with left_bindings[L[i]] = left_keys[i] and right_bindings[R[i]] =
\* right_keys[i] for every i; with a key absent from its side it returns a
\* logic error naming an absent key, and no indices.
C14_JoinIndices ==
    JoinerCalled =>
        LET res == call.result
            lk == call.joiner.left_keys
            rk == call.joiner.right_keys
        IN  IF AllKeysPresent
            THEN /\ res.ok
                 /\ Len(res.l) = Len(lk) /\ Len(res.r) = Len(rk)
                 /\ \A i \in 1..Len(lk) :
                       /\ res.l[i] \in 0..(Len(call.left_bindings) - 1)
                       /\ res.r[i] \in 0..(Len(call.right_bindings) - 1)
                       /\ call.left_bindings[res.l[i] + 1] = lk[i]
                       /\ call.right_bindings[res.r[i] + 1] = rk[i]
            ELSE /\ ~res.ok
                 /\ res.l = <<>> /\ res.r = <<>>
                 /\ \/ res.missing \in Range(lk) \ Range(call.left_bindings)
                    \/ res.missing \in Range(rk) \ Range(call.right_bindings)

C14_Witness ==
    /\ JoinerCalled /\ AllKeysPresent
    /\ call.joiner = Keys(<<"b", "a">>, <<"d", "d">>)
    /\ call.left_bindings = <<"a", "b">> /\ call.right_bindings = <<"c", "d">>
    /\ call.result.l = <<1, 0>> /\ call.result.r = <<1, 1>>

C14_WitnessMissing ==
    /\ JoinerCalled
    /\ call.joiner = Keys(<<"a", "b">>, <<"c", "z">>)
    /\ call.left_bindings = <<"a">> /\ call.right_bindings = <<"c", "d">>
    /\ ~call.result.ok /\ call.result.missing = "b"

\* ------------------------------------------------------------------ C15
\* the top node violates the structure of a relation tree
StructuralViolation ==
    \/ /\ rel.kind = "Join"
       /\ \/ rel.right.kind = "Reorder"
          \/ ~join_indices(rel.joiner, bindings_after_eliminate(rel.left),
                           bindings_after_eliminate(rel.right)).ok
          \/ rel.right.kind = "Triple" /\ Len(JoinR) \notin {0, 1, 2}
    \/ /\ rel.kind = "Reorder"
       /\ ~IsPermutation(rel.new_order, bindings_after_eliminate(rel.relation))

\* the iteration failed before it produced anything
FailedWithoutTuples == out.panic = "setup" /\ out.items = <<>>

\* C15: iterating a tree with a structural violation (a Reorder as right child
\* of a Join, a join key no child binds, a Triple join with more than two key
\* pairs, a Reorder whose new_order is no permutation of the child's bindings)
\* fails with a logic error and yields no tuple.
C15_StructuralViolationFails ==
    (Iterated /\ StructuralViolation) => FailedWithoutTuples

\* the same, except for a Reorder whose new_order names only child bindings
C15_ExceptNarrowingReorder ==
    (Iterated /\ StructuralViolation
        /\ ~(rel.kind = "Reorder"
                /\ Range(rel.new_order) \subseteq
                       Range(bindings_after_eliminate(rel.relation))))
        => FailedWithoutTuples

\* ------------------------------------------------------------------ C16
\* the join nodes of tree r (by their path from the top) that are served by a
\* materialized join or by v_no_index_join
RECURSIVE ScratchNodes(_, _)
ScratchNodes(r, path) ==
    CASE r.kind = "Join" ->
            LET ji == join_indices(r.joiner, bindings_after_eliminate(r.left),
                                   bindings_after_eliminate(r.right))
                here == /\ ji.ok
                        /\ \/ r.right.kind \in {"Join", "Filter"}
                           \/ r.right.kind = "Derived" /\ ~join_is_prefix(ji.r)
                           \/ /\ r.right.kind = "Triple"
                              /\ ji.r = <<1>>
                              /\ r.right.attr = AttrNote
            IN  (IF here THEN {path} ELSE {})
                    \cup ScratchNodes(r.left, Append(path, "left"))
                    \cup ScratchNodes(r.right, Append(path, "right"))
      [] r.kind = "Filter" -> ScratchNodes(r.parent, Append(path, "parent"))
      [] r.kind = "Reorder" -> ScratchNodes(r.relation, Append(path, "relation"))
      [] OTHER -> {}

\* the stores allocated for the iterators that are alive, as <<iterator, store>>
AliveStores ==
    UNION {{<<k, i>> : i \in 1..Len(scratch.iters[k].stores)} :
              k \in 1..Len(scratch.iters)}

StoreOf(p) == scratch.iters[p[1]].stores[p[2]]

\* C16: every iter call allocates exactly one scratch store for each
\* materialized join and each v_no_index_join it reaches; the stores are
\* fresh (no id is shared between two join nodes or two iterations), and a
\* store is live exactly as long as the iterator that owns it.
C16_ScratchStoresUniquePerUse ==
    /\ \A k \in 1..Len(scratch.iters) :
          LET st == scratch.iters[k].stores
              nodes == {st[i].node : i \in 1..Len(st)}
          IN  /\ Cardinality(nodes) = Len(st)
              /\ nodes \subseteq ScratchNodes(rel, <<>>)
              /\ scratch.iters[k].clean => nodes = ScratchNodes(rel, <<>>)
    /\ \A p, q \in AliveStores : StoreOf(p).id = StoreOf(q).id => p = q
    /\ \A p \in AliveStores : StoreOf(p).id < scratch.next
    /\ scratch.live = {StoreOf(p).id : p \in {q \in AliveStores : StoreOf(q).kept}}

C16_Witness ==
    /\ Len(scratch.iters) = 2
    /\ scratch.iters[1].epoch = scratch.iters[2].epoch
    /\ \A k \in 1..2 :
          /\ scratch.iters[k].clean
          /\ Len(scratch.iters[k].stores) = 2
          /\ \A i \in 1..2 : scratch.iters[k].stores[i].kept
    /\ Cardinality(scratch.live) = 4

\* an iterator whose right child's stores were released when it was drained
C16_WitnessDrained ==
    /\ Len(scratch.iters) = 1
    /\ scratch.iters[1].clean
    /\ Len(scratch.iters[1].stores) = 2
    /\ scratch.iters[1].stores[2].node = <<"right">>
    /\ ~scratch.iters[1].stores[2].kept
    /\ Cardinality(scratch.live) = 1

\* ------------------------------------------------------------------ C17
\* the top node is a Join on a Fixed build side whose keys resolve, and no
\* probe tuple is too short for the probe indices
FixedJoined ==
    /\ rel.kind = "Join"
    /\ rel.right.kind = "Fixed"
    /\ join_indices(rel.joiner, bindings_after_eliminate(rel.left),
                    bindings_after_eliminate(rel.right)).ok
    /\ LET L == iter(rel.left, tx, epoch, use_delta)
       IN  /\ L.panic = "none"
           /\ \A item \in Range(L.items) : item.ok => ~OutOfRange(JoinL, item.t)

\* the elimination index set InnerJoin::iter hands to the join
JoinE == get_eliminate_indices(InnerJoin_bindings(rel), rel.to_eliminate)

\* what the claim asks of the Fixed join for one item of the probe stream
FixedJoinExpected(item) ==
    IF ~item.ok THEN <<item>>
    ELSE LET rows == SelectSeq(rel.right.data,
                        LAMBDA d : Pick(d, JoinR) = Pick(item.t, JoinL))
         IN  [k \in 1..Len(rows) |-> Ok(eliminate(item.t \o rows[k], JoinE))]

\* C17: whatever the number of rows of a Fixed build side, the join emits, for
\* each probe tuple in order, one output per row whose R-values equal the
\* probe's L-values, each being probe ++ row without the positions in E; the
\* single-row and the multi-row path agree.
C17_FixedJoinProjects ==
    (Iterated /\ FixedJoined) =>
        LET L == iter(rel.left, tx, epoch, use_delta)
        IN  out.items = Concat([i \in 1..Len(L.items) |-> FixedJoinExpected(L.items[i])])

\* the same, for a build side of at most one row, or with E empty
C17_SingleRowOrNoElimination ==
    (Iterated /\ FixedJoined /\ (Len(rel.right.data) <= 1 \/ JoinE = {}))
        => C17_FixedJoinProjects

\* ------------------------------------------------------------------ C18
\* the top node is a Join on a Triple build side served by one of the join
\* variants, and the probe stream does not panic
TripleJoined ==
    /\ rel.kind = "Join"
    /\ rel.right.kind = "Triple"
    /\ join_indices(rel.joiner, bindings_after_eliminate(rel.left),
                    bindings_after_eliminate(rel.right)).ok
    /\ JoinR \in {<<>>, <<0>>, <<1>>, <<0, 1>>, <<1, 0>>}
    /\ iter(rel.left, tx, epoch, use_delta).panic = "none"

\* the join variant TripleRelation::join dispatches to
TripleVariant ==
    CASE JoinR = <<>> -> "cartesian_join"
      [] JoinR \in {<<0, 1>>, <<1, 0>>} -> "ev_join"
      [] JoinR = <<0>> -> "e_join"
      [] JoinR = <<1>> /\ rel.right.attr.is_ref_type -> "v_ref_join"
      [] JoinR = <<1>> /\ ~rel.right.attr.is_ref_type /\ rel.right.attr.should_index
            -> "v_index_join"
      [] OTHER -> "v_no_index_join"

\* o is probe tuple l followed by EntityId(e) and v of a visible triple of the
\* attribute, without the positions in E
ExtendsByTriple(o, l) ==
    \E f \in Visible(tx, rel.right.attr.id, rel.right.vld) :
        o = eliminate(l \o <<EnId(f.e), f.v>>, JoinE)

\* C18: in every Triple join variant each output tuple is the probe tuple
\* followed by EntityId(e) and then v of the matched triple, without the
\* positions in the elimination index set E.
C18_TripleAppendsEntityThenValue ==
    (Iterated /\ TripleJoined) =>
        \A o \in Range(OkTuples(out)) :
            \E l \in Range(OkTuples(iter(rel.left, tx, epoch, use_delta))) :
                ExtendsByTriple(o, l)

\* the same, for the variants that look the entity up or use an index
C18_IndexedVariants ==
    (Iterated /\ TripleJoined
        /\ TripleVariant \in {"ev_join", "e_join", "v_ref_join", "v_index_join"})
        => C18_TripleAppendsEntityThenValue

\* the same, for cartesian_join when nothing is eliminated at the join
C18_CartesianNoElimination ==
    (Iterated /\ TripleJoined /\ TripleVariant = "cartesian_join" /\ JoinE = {})
        => C18_TripleAppendsEntityThenValue

\* ------------------------------------------------------------------ C19
\* the top node is a Reorder whose new_order was a permutation of its child's
\* bindings when the tree was built
ReorderBuiltAsPermutation ==
    /\ rel.kind = "Reorder"
    /\ IsPermutation(orig.new_order, bindings_after_eliminate(orig.relation))

\* C19: a Reorder whose new_order is a permutation of its child's bindings
\* before the pass still has a permutation of the child's post-elimination
\* bindings after eliminate_temp_vars(used), for any `used`, and iterating it
\* resolves every new_order binding to a child position.
C19_ReorderStaysPermutation ==
    (Eliminated /\ ReorderBuiltAsPermutation) =>
        /\ IsPermutation(rel.new_order, bindings_after_eliminate(rel.relation))
        /\ \A k \in 1..Len(rel.new_order) :
              HasKey(bindings_after_eliminate(rel.relation), rel.new_order[k])
        /\ Iterated => out.panic # "setup"

\* the same, when `used` holds every binding of new_order
C19_WhenUsedCoversNewOrder ==
    (Eliminated /\ ReorderBuiltAsPermutation /\ Range(rel.new_order) \subseteq used[1])
        => C19_ReorderStaysPermutation

\* ------------------------------------------------------------------ C20
DerivedNegCalled == call.op = "Derived_neg_join"

\* the full store (epoch 0) holds a tuple equal to t on every index pair
StoreMatches(t) ==
    \E st \in tx.stores[DerivedId.id].eps[0] :
        \A k \in 1..Len(call.ri) : t[call.li[k] + 1] = st[call.ri[k] + 1]

\* C20: Derived.neg_join keeps a probe tuple t iff the full store (epoch 0)
\* holds no tuple s with t[L[i]] = s[R[i]] for every i, whatever the order of
\* R: the scan prefix never hides a stored tuple that matches on all pairs.
C20_DerivedNegJoinKeepsUnmatched ==
    DerivedNegCalled =>
        /\ call.result.panic = "none"
        /\ call.result.items =
              OkSeq(SelectSeq(call.probe, LAMBDA t : ~StoreMatches(t)))

C20_Witness ==
    /\ DerivedNegCalled
    /\ call.ri = <<1, 0>> /\ call.li = <<0, 1>>
    /\ Len(call.probe) = 2
    /\ StoreMatches(call.probe[1]) /\ ~StoreMatches(call.probe[2])
    /\ call.result.items = <<Ok(call.probe[2])>>
    /\ call.probe[1] \notin tx.stores[DerivedId.id].eps[0]

\* the top node is a Join with a Derived right child and resolvable keys
DerivedJoined ==
    /\ rel.kind = "Join"
    /\ rel.right.kind = "Derived"
    /\ join_indices(rel.joiner, bindings_after_eliminate(rel.left),
                    bindings_after_eliminate(rel.right)).ok

\* R sorted equals [0, 1, ..., |R|-1]: R lists each of 0..|R|-1 exactly once
SortedIsIdentity(R) ==
    /\ Range(R) = 0..(Len(R) - 1)
    /\ \A i, k \in 1..Len(R) : R[i] = R[k] => i = k

\* C21: join_is_prefix(R) is true iff R sorted equals [0, ..., |R|-1]; a Join
\* with a Derived right child is served by prefix_join exactly when it is true
\* and by materialized_join otherwise; and where prefix_join is used at epoch
\* None, materialized_join on the same inputs yields the same multiset of
\* tuples.
C21_PrefixDispatch ==
    (Iterated /\ DerivedJoined) =>
        /\ join_is_prefix(JoinR) <=> SortedIsIdentity(JoinR)
        /\ out = IF SortedIsIdentity(JoinR)
                 THEN prefix_join(rel.right, iter(rel.left, tx, epoch, use_delta),
                                  JoinL, JoinR, JoinE, epoch, use_delta, tx)
                 ELSE materialized_join(rel, tx, JoinE, epoch, use_delta)
        /\ (SortedIsIdentity(JoinR) /\ epoch = <<>>) =>
              BagOfSeq(OkTuples(out)) =
                  BagOfSeq(OkTuples(materialized_join(rel, tx, JoinE, epoch,
                                                      use_delta)))

\* a prefix join on the swapped key pair at epoch None that emits tuples
C21_Witness ==
    /\ Iterated /\ DerivedJoined /\ epoch = <<>>
    /\ JoinR = <<1, 0>> /\ join_is_prefix(JoinR)
    /\ OkTuples(out) # <<>>

\* a materialized join on a Derived right child whose key skips column 0
C21_WitnessSkipped ==
    /\ Iterated /\ DerivedJoined /\ epoch = <<>>
    /\ JoinR = <<1>> /\ ~join_is_prefix(JoinR)
    /\ OkTuples(out) # <<>>

\* the top node maps over the stream of one child: a Filter over its parent,
\* a Reorder over its relation, a Join over its left child
StreamsChild ==
    \/ rel.kind \in {"Filter", "Reorder"}
    \/ /\ rel.kind = "Join"
       /\ join_indices(rel.joiner, bindings_after_eliminate(rel.left),
                       bindings_after_eliminate(rel.right)).ok

ProbeStream ==
    CASE rel.kind = "Filter" -> iter(rel.parent, tx, epoch, use_delta)
      [] rel.kind = "Reorder" -> iter(rel.relation, tx, epoch, use_delta)
      [] rel.kind = "Join" -> iter(rel.left, tx, epoch, use_delta)

BuildStream == iter(rel.right, tx, epoch, use_delta)

\* the top node is a Join served by materialized_join
Materialized ==
    /\ rel.kind = "Join"
    /\ join_indices(rel.joiner, bindings_after_eliminate(rel.left),
                    bindings_after_eliminate(rel.right)).ok
    /\ \/ rel.right.kind \in {"Join", "Filter"}
       \/ rel.right.kind = "Derived" /\ ~join_is_prefix(JoinR)

\* the probe loop of the top materialized join over the stream S, with the
\* scratch store filled from the right tuples ts
MaterializedOver(S, ts) ==
    LET store_indices == right_store_indices(JoinR, RightWidth)
        so == StableOrder(store_indices)
    IN  materialized_probe(S,
            PutAll(new_throwaway,
                   [i \in 1..Len(ts) |-> Pick(ts[i], store_indices)]),
            JoinL, [k \in 1..Len(so) |-> so[k] - 1], JoinE)

\* what the top node emits for the one tuple t of its streamed child
Alone(t) ==
    LET S == [items |-> <<Ok(t)>>, panic |-> "none"]
    IN  CASE rel.kind = "Filter" ->
                filter_item(rel.pred, t,
                    get_eliminate_indices(bindings_after_eliminate(rel.parent),
                                          rel.to_eliminate))
          [] rel.kind = "Reorder" ->
                LET old_order == bindings_after_eliminate(rel.relation)
                IN  <<Ok(reorder_tuple(t,
                        [k \in 1..Len(rel.new_order) |->
                            IndexOf(old_order, rel.new_order[k])]))>>
          [] rel.kind = "Join" /\ rel.right.kind = "Fixed" ->
                InlineFixed_join(rel.right, S, JoinL, JoinR, JoinE).items
          [] rel.kind = "Join" /\ rel.right.kind = "Triple" ->
                Triple_join(rel.right, S, JoinL, JoinR, tx, JoinE).items
          [] rel.kind = "Join" /\ rel.right.kind = "Derived"
                               /\ join_is_prefix(JoinR) ->
                prefix_join(rel.right, S, JoinL, JoinR, JoinE, epoch,
                            use_delta, tx).items
          [] OTHER -> MaterializedOver(S, OkTuples(BuildStream)).items

HasError(items) == \E k \in 1..Len(items) : ~items[k].ok

\* every item of the streamed child contributes its own items in place: an
\* error item is passed on as it is, a tuple whose processing fails gives one
\* error item, and what one item contributes does not depend on the others
ProbeErrorsInPlace ==
    (Iterated /\ StreamsChild /\ out.panic = "none"
        /\ ~(Materialized /\ HasError(BuildStream.items))) =>
        LET S == ProbeStream.items
        IN  /\ out.items = Concat([i \in 1..Len(S) |->
                              IF S[i].ok THEN Alone(S[i].t) ELSE <<S[i]>>])
            /\ \A i \in 1..Len(S) :
                  (S[i].ok /\ HasError(Alone(S[i].t))) => Len(Alone(S[i].t)) = 1

\* an error item of the right child of a materialized join is emitted and the
\* join goes on with the right tuples that did not fail
BuildErrorsInPlace ==
    (Iterated /\ Materialized /\ out.panic = "none"
        /\ BuildStream.panic = "none") =>
        /\ IsSubsequence(ErrItems(BuildStream), ErrItems(out))
        /\ OkTuples(out) =
              OkTuples(MaterializedOver(ProbeStream, OkTuples(BuildStream)))

C22_WitnessEval ==
    /\ Iterated /\ rel.kind = "Filter" /\ out.panic = "none"
    /\ ProbeStream.items # <<>> /\ ProbeStream.items[1].ok
    /\ Len(out.items) >= 2
    /\ out.items[1] = Err("eval") /\ out.items[2].ok

\* an entity extraction error in ev_join followed by a tuple
C22_WitnessEntity ==
    /\ Iterated /\ rel.kind = "Join" /\ rel.right.kind = "Triple"
    /\ JoinR = <<0, 1>> /\ out.panic = "none"
    /\ Len(out.items) >= 2
    /\ out.items[1] = Err("type") /\ out.items[2].ok

\* a materialized join whose right child fails before a tuple that matches
C22_WitnessBuild ==
    /\ Iterated /\ Materialized /\ BuildStream.panic = "none"
    /\ BuildStream.items # <<>> /\ ~BuildStream.items[1].ok
    /\ OkTuples(MaterializedOver(ProbeStream, OkTuples(BuildStream))) # <<>>
    /\ Len(out.items) = 1

\* the build side of the top Join in the order it returns its entries: the
\* Fixed row list, the storage scan of the attribute, the Derived store, or the
\* scratch store a materialized join or v_no_index_join has filled
BuildList ==
    CASE rel.right.kind = "Fixed" -> rel.right.data
      [] rel.right.kind = "Triple" ->
            LET scan == triple_a_before_scan(tx, rel.right.attr.id, rel.right.vld)
            IN  IF DispatchesNoIndex(rel.right, JoinR)
                THEN LET found == scan_all_for_epoch(
                            PutAll(new_throwaway,
                                   [k \in 1..Len(scan) |-> <<scan[k][2], scan[k][1]>>]),
                            0)
                     IN  [k \in 1..Len(found) |-> <<found[k][2], found[k][1]>>]
                ELSE scan
      [] rel.right.kind = "Derived" /\ join_is_prefix(JoinR) ->
            OkTuples(Derived_iter(rel.right, tx, epoch, use_delta))
      [] OTHER ->
            LET ts == OkTuples(BuildStream)
                store_indices == right_store_indices(JoinR, RightWidth)
            IN  scan_all_for_epoch(
                    PutAll(new_throwaway,
                           [i \in 1..Len(ts) |-> Pick(ts[i], store_indices)]), 0)

\* the build-side entry m is a match of the probe tuple t
BuildMatch(t, m) ==
    IF Materialized THEN IsPrefix(Pick(t, JoinL), m)
    ELSE \A k \in 1..Len(JoinR) : m[JoinR[k] + 1] = t[JoinL[k] + 1]

\* the tuple the join closure builds from the probe tuple t and the match m
JoinExtend(t, m) ==
    CASE rel.right.kind = "Fixed" ->
            IF Len(rel.right.data) = 1 THEN eliminate(t \o m, JoinE) ELSE t \o m
      [] rel.right.kind = "Triple" ->
            IF JoinR = <<>> THEN t \o m
            ELSE IF DispatchesNoIndex(rel.right, JoinR)
            THEN eliminate(t \o <<m[1]>>, JoinE)
            ELSE eliminate(t \o m, JoinE)
      [] rel.right.kind = "Derived" /\ join_is_prefix(JoinR) ->
            eliminate(t \o m, JoinE)
      [] OTHER ->
            LET so == StableOrder(right_store_indices(JoinR, RightWidth))
            IN  eliminate(t \o Pick(m, [k \in 1..Len(so) |-> so[k] - 1]), JoinE)

\* the matches of the probe tuple t in build-side order
MatchesOf(t) == SelectSeq(BuildList, LAMBDA m : BuildMatch(t, m))

\* the top node is a Join whose probe loop ran over the whole left stream
Probed ==
    /\ Iterated /\ rel.kind = "Join" /\ StreamsChild /\ out.panic = "none"
    /\ ~(Materialized /\ HasError(BuildStream.items))

\* C23: the outputs of a Join come in the order of the left child's tuples,
\* all outputs of an earlier left tuple before those of a later one, and the
\* outputs of one left tuple come in the order the build side returns its
\* matches.
C23_LeftDrivenOrder ==
    Probed =>
        LET S == ProbeStream.items
            block(i) ==
                IF ~S[i].ok THEN <<S[i]>>
                ELSE IF HasError(Alone(S[i].t)) THEN Alone(S[i].t)
                ELSE LET m == MatchesOf(S[i].t)
                     IN  [k \in 1..Len(m) |-> Ok(JoinExtend(S[i].t, m[k]))]
        IN  out.items = Concat([i \in 1..Len(S) |-> block(i)])

\* two different left tuples with two different matches each
TwoProbesTwoMatches ==
    LET S == ProbeStream.items
    IN  \E i, j \in 1..Len(S) :
            /\ i < j /\ S[i].ok /\ S[j].ok /\ S[i].t # S[j].t
            /\ \A p \in {i, j} :
                  /\ ~HasError(Alone(S[p].t))
                  /\ Cardinality(Range(MatchesOf(S[p].t))) >= 2
                  /\ Cardinality({JoinExtend(S[p].t, m) :
                                     m \in Range(MatchesOf(S[p].t))}) >= 2

\* a Join on a Fixed row list
C23_Witness == Probed /\ rel.right.kind = "Fixed" /\ TwoProbesTwoMatches

\* a Join on a storage scan
C23_WitnessStorage == Probed /\ rel.right.kind = "Triple" /\ TwoProbesTwoMatches

\* a Join on a scratch store
C23_WitnessScratch == Probed /\ Materialized /\ TwoProbesTwoMatches

\* a Join on the prefix scan of a Derived store
C23_WitnessPrefix ==
    /\ Probed /\ rel.right.kind = "Derived" /\ join_is_prefix(JoinR)
    /\ TwoProbesTwoMatches

\* materialized_join or v_no_index_join was called on its own
FillCalled == call.op \in {"materialized_join", "v_no_index_join"}

\* the position in the source iterator at which filling the scratch store
\* stops: the first error item or the item whose put fails, 0 when neither
\* happens
FailingPut ==
    {i \in 1..Len(call.source) :
        /\ call.source[i].ok
        /\ Cardinality({k \in 1..i : call.source[k].ok}) = call.fail_put}

FillFailures == {i \in 1..Len(call.source) : ~call.source[i].ok} \cup FailingPut

FirstFillFailure == CHOOSE i \in FillFailures : \A k \in FillFailures : i <= k

\* no right tuple before position n is too short for the store layout
StorableBefore(n) ==
    call.op = "materialized_join" =>
        \A i \in 1..(n - 1) :
            call.source[i].ok =>
                ~OutOfRange(right_store_indices(JoinR, RightWidth), call.source[i].t)

\* C24: when filling the scratch store fails in materialized_join or in
\* v_no_index_join, because the right child's iterator or the attribute scan
\* yields an error or because put fails, the stream returned is that one error
\* item and nothing else, and the left iterator is never pulled.
C24_FillFailureIsOneError ==
    (FillCalled /\ FillFailures # {} /\ StorableBefore(FirstFillFailure)) =>
        /\ call.result.stream =
              [items |-> <<IF call.source[FirstFillFailure].ok THEN Err("storage")
                           ELSE call.source[FirstFillFailure]>>,
               panic |-> "none"]
        /\ ~call.result.left_pulled

\* the left child has tuples that match right tuples and the fill fails after
\* a tuple was stored
FillFailedAfterPut ==
    /\ FillCalled /\ FillFailures # {} /\ FirstFillFailure > 1
    /\ ProbeStream.items # <<>>
    /\ Len(call.result.stream.items) = 1

\* the right child of a materialized join yields an error
C24_Witness ==
    /\ FillFailedAfterPut /\ call.op = "materialized_join"
    /\ ~call.source[FirstFillFailure].ok

\* put fails in materialized_join
C24_WitnessPut ==
    /\ FillFailedAfterPut /\ call.op = "materialized_join"
    /\ call.source[FirstFillFailure].ok

\* the attribute scan yields an error in v_no_index_join
C24_WitnessScan ==
    /\ FillFailedAfterPut /\ call.op = "v_no_index_join"
    /\ ~call.source[FirstFillFailure].ok

\* put fails in v_no_index_join
C24_WitnessScanPut ==
    /\ FillFailedAfterPut /\ call.op = "v_no_index_join"
    /\ call.source[FirstFillFailure].ok

\* without a failure the stream is the probe loop over the left child
C24_WitnessFilled ==
    /\ FillCalled /\ FillFailures = {}
    /\ call.result.left_pulled
    /\ OkTuples(call.result.stream) # <<>>

====
